---- MODULE Spec2Model ----
(***************************************************************************)
(* Cover Resolution Engine of MyGameLauncher (src/game_manager.py,         *)
(* src/main.py): name normalisation, cache-key derivation, the ordered     *)
(* fallback chain of CoverAPIManager.get_cover over the rate-limited       *)
(* clients, and the callers that drive it.                                 *)
(*                                                                         *)
(* Strings are sequences of one-character strings.  None and the empty     *)
(* string are both the empty sequence: the code only ever tests such       *)
(* optional values for truthiness.                                         *)
(*                                                                         *)
(* Three specifications share the variables:                               *)
(*   Spec         the scanners and refresh_cover calling get_cover, one    *)
(*                action per tier step, the providers' answers chosen by   *)
(*                the environment;                                         *)
(*   SpecClients  sequential queries on the SteamGridDB and RAWG clients   *)
(*                under a running clock (ticks of 50 ms);                  *)
(*   SpecKey      the cache-key derivation applied to pairs of requests.   *)
(* MD5 is a symbolic, injective digest.  The module is taken as loaded:    *)
(* names the source uses without importing them are taken as resolved.     *)
(***************************************************************************)
EXTENDS Integers, Sequences, FiniteSets, TLC

(***************************************************************************)
(* Characters and strings                                                  *)
(***************************************************************************)
None == << >>

Truthy(x) == x # << >>

LowerLetters ==
    {"a","b","c","d","e","f","g","h","i","j","k","l","m",
     "n","o","p","q","r","s","t","u","v","w","x","y","z"}

UpperLetters ==
    {"A","B","C","D","E","F","G","H","I","J","K","L","M",
     "N","O","P","Q","R","S","T","U","V","W","X","Y","Z"}

Digits == {"0","1","2","3","4","5","6","7","8","9"}

UpperToLower ==
    [c \in UpperLetters |->
        CASE c = "A" -> "a" [] c = "B" -> "b" [] c = "C" -> "c" [] c = "D" -> "d"
          [] c = "E" -> "e" [] c = "F" -> "f" [] c = "G" -> "g" [] c = "H" -> "h"
          [] c = "I" -> "i" [] c = "J" -> "j" [] c = "K" -> "k" [] c = "L" -> "l"
          [] c = "M" -> "m" [] c = "N" -> "n" [] c = "O" -> "o" [] c = "P" -> "p"
          [] c = "Q" -> "q" [] c = "R" -> "r" [] c = "S" -> "s" [] c = "T" -> "t"
          [] c = "U" -> "u" [] c = "V" -> "v" [] c = "W" -> "w" [] c = "X" -> "x"
          [] c = "Y" -> "y" [] c = "Z" -> "z"]

\* str.lower() on one character
LowerChar(c) == IF c \in UpperLetters THEN UpperToLower[c] ELSE c

\* regex \w, \d, \s and [a-z] under re.IGNORECASE
IsWord(c) == c \in LowerLetters \cup UpperLetters \cup Digits \cup {"_"}

InClass(cls, c) ==
    CASE cls = "digit" -> c \in Digits
      [] cls = "space" -> c = " "
      [] cls = "lower" -> LowerChar(c) \in LowerLetters
      [] OTHER -> LowerChar(c) = cls

\* s[i..j-1]
Slice(s, i, j) == IF j <= i THEN << >> ELSE SubSeq(s, i, j - 1)

(***************************************************************************)
(* IconExtractor._clean_name                                               *)
(***************************************************************************)
Lit(c) == [cls |-> c, q |-> "one"]
Opt(cls) == [cls |-> cls, q |-> "opt"]
Star(cls) == [cls |-> cls, q |-> "star"]
Plus(cls) == [cls |-> cls, q |-> "plus"]
\* the group (\.\d+)* of the version pattern
VerTail == [cls |-> "vertail", q |-> "group"]

\* the junk vocabulary, each entry one pattern, literals in lower case
\* because every substitution is made with re.IGNORECASE
junk ==
    << <<Lit("t"), Lit("e"), Lit("n"), Lit("o"), Lit("k"), Lit("e")>>,
       <<Lit("r"), Lit("u"), Lit("n"), Lit("e")>>,
       <<Lit("d"), Lit("o"), Lit("d"), Lit("i")>>,
       <<Lit("f"), Lit("i"), Lit("t"), Lit("g"), Lit("i"), Lit("r"), Lit("l")>>,
       <<Lit("r"), Lit("e"), Lit("p"), Lit("a"), Lit("c"), Lit("k")>>,
       <<Lit("e"), Lit("m"), Lit("p"), Lit("r"), Lit("e"), Lit("s"), Lit("s")>>,
       <<Lit("c"), Lit("o"), Lit("d"), Lit("e"), Lit("x")>>,
       <<Lit("s"), Lit("k"), Lit("i"), Lit("d"), Lit("r"), Lit("o"), Lit("w")>>,
       <<Lit("c"), Lit("p"), Lit("y")>>,
       <<Lit("p"), Lit("l"), Lit("a"), Lit("z"), Lit("a")>>,
       <<Lit("h"), Lit("o"), Lit("o"), Lit("d"), Lit("l"), Lit("u"), Lit("m")>>,
       <<Lit("r"), Lit("a"), Lit("z"), Lit("o"), Lit("r"), Lit("1"), Lit("9"), Lit("1"), Lit("1")>>,
       <<Lit("t"), Lit("i"), Lit("n"), Lit("y"), Lit("i"), Lit("s"), Lit("o")>>,
       <<Lit("p"), Lit("r"), Lit("o"), Lit("p"), Lit("h"), Lit("e"), Lit("t")>>,
       <<Lit("d"), Lit("a"), Lit("r"), Lit("k"), Lit("s"), Lit("i"), Lit("d"), Lit("e"), Lit("r"), Lit("s")>>,
       <<Lit("a"), Lit("n"), Lit("o"), Lit("m"), Lit("a"), Lit("l"), Lit("y")>>,
       <<Lit("s"), Lit("i"), Lit("m"), Lit("p"), Lit("l"), Lit("e"), Lit("x")>>,
       <<Lit("g"), Lit("o"), Lit("g")>>,
       <<Lit("p"), Lit("o"), Lit("r"), Lit("t"), Lit("a"), Lit("b"), Lit("l"), Lit("e")>>,
       <<Lit("s"), Lit("t"), Lit("e"), Lit("a"), Lit("m")>>,
       <<Lit("e"), Lit("p"), Lit("i"), Lit("c")>>,
       <<Lit("v"), Plus("digit"), VerTail, Opt("lower")>>,
       <<Lit("b"), Lit("u"), Lit("i"), Lit("l"), Lit("d"), Star("space"), Plus("digit")>>,
       <<Lit("u"), Lit("p"), Lit("d"), Lit("a"), Lit("t"), Lit("e"), Star("space"), Plus("digit")>>,
       <<Lit("d"), Lit("x"), Lit("1"), Lit("1")>>,
       <<Lit("d"), Lit("x"), Lit("1"), Lit("2")>>,
       <<Lit("x"), Lit("6"), Lit("4")>>,
       <<Lit("x"), Lit("8"), Lit("6")>>,
       <<Lit("m"), Lit("u"), Lit("l"), Lit("t"), Lit("i"), Plus("digit")>>,
       <<Lit("d"), Lit("l"), Lit("c")>>,
       <<Lit("v"), Lit("r")>>,
       <<Lit("h"), Lit("d"), Lit("r")>>,
       <<Lit("4"), Lit("k")>>,
       <<Lit("u"), Lit("h"), Lit("d")>>,
       <<Lit("g"), Lit("o"), Lit("t"), Lit("y")>>,
       <<Lit("g"), Lit("a"), Lit("m"), Lit("e"), Lit(" "), Lit("o"), Lit("f"), Lit(" "), Lit("t"), Lit("h"), Lit("e"), Lit(" "), Lit("y"), Lit("e"), Lit("a"), Lit("r")>>,
       <<Lit("e"), Lit("n"), Lit("h"), Lit("a"), Lit("n"), Lit("c"), Lit("e"), Lit("d"), Lit(" "), Lit("e"), Lit("d"), Lit("i"), Lit("t"), Lit("i"), Lit("o"), Lit("n")>>,
       <<Lit("d"), Lit("e"), Lit("f"), Lit("i"), Lit("n"), Lit("i"), Lit("t"), Lit("i"), Lit("v"), Lit("e"), Lit(" "), Lit("e"), Lit("d"), Lit("i"), Lit("t"), Lit("i"), Lit("o"), Lit("n")>>,
       <<Lit("c"), Lit("o"), Lit("m"), Lit("p"), Lit("l"), Lit("e"), Lit("t"), Lit("e"), Lit(" "), Lit("e"), Lit("d"), Lit("i"), Lit("t"), Lit("i"), Lit("o"), Lit("n")>>,
       <<Lit("u"), Lit("l"), Lit("t"), Lit("i"), Lit("m"), Lit("a"), Lit("t"), Lit("e"), Lit(" "), Lit("e"), Lit("d"), Lit("i"), Lit("t"), Lit("i"), Lit("o"), Lit("n")>>,
       <<Lit("d"), Lit("e"), Lit("l"), Lit("u"), Lit("x"), Lit("e"), Lit(" "), Lit("e"), Lit("d"), Lit("i"), Lit("t"), Lit("i"), Lit("o"), Lit("n")>>,
       <<Lit("p"), Lit("r"), Lit("e"), Lit("m"), Lit("i"), Lit("u"), Lit("m"), Lit(" "), Lit("e"), Lit("d"), Lit("i"), Lit("t"), Lit("i"), Lit("o"), Lit("n")>>,
       <<Lit("g"), Lit("o"), Lit("l"), Lit("d"), Lit(" "), Lit("e"), Lit("d"), Lit("i"), Lit("t"), Lit("i"), Lit("o"), Lit("n")>>,
       <<Lit("l"), Lit("e"), Lit("g"), Lit("e"), Lit("n"), Lit("d"), Lit("a"), Lit("r"), Lit("y"), Lit(" "), Lit("e"), Lit("d"), Lit("i"), Lit("t"), Lit("i"), Lit("o"), Lit("n")>>,
       <<Lit("a"), Lit("n"), Lit("n"), Lit("i"), Lit("v"), Lit("e"), Lit("r"), Lit("s"), Lit("a"), Lit("r"), Lit("y"), Lit(" "), Lit("e"), Lit("d"), Lit("i"), Lit("t"), Lit("i"), Lit("o"), Lit("n")>>,
       <<Lit("e"), Lit("a"), Lit("r"), Lit("l"), Lit("y"), Lit(" "), Lit("a"), Lit("c"), Lit("c"), Lit("e"), Lit("s"), Lit("s")>>,
       <<Lit("d"), Lit("e"), Lit("m"), Lit("o")>>,
       <<Lit("a"), Lit("l"), Lit("p"), Lit("h"), Lit("a")>>,
       <<Lit("b"), Lit("e"), Lit("t"), Lit("a")>>,
       <<Lit("p"), Lit("r"), Lit("e"), Lit("v"), Lit("i"), Lit("e"), Lit("w")>> >>


\* the positions at which a run of characters of class cls starting at i
\* may end: i itself when the run may be empty, then every longer prefix
RECURSIVE RunEnds(_, _, _)
RunEnds(cls, s, i) ==
    IF i <= Len(s) /\ InClass(cls, s[i])
    THEN {i + 1} \cup RunEnds(cls, s, i + 1)
    ELSE {}

\* positions where (\.\d+)* may end when started at i
RECURSIVE VerTailEnds(_, _)
VerTailEnds(s, i) ==
    {i} \cup
    IF i <= Len(s) /\ s[i] = "."
    THEN UNION {VerTailEnds(s, e) : e \in RunEnds("digit", s, i + 1)}
    ELSE {}

AtomEnds(a, s, i) ==
    CASE a.q = "one" -> IF i <= Len(s) /\ InClass(a.cls, s[i]) THEN {i + 1} ELSE {}
      [] a.q = "opt" -> {i} \cup (IF i <= Len(s) /\ InClass(a.cls, s[i]) THEN {i + 1} ELSE {})
      [] a.q = "star" -> {i} \cup RunEnds(a.cls, s, i)
      [] a.q = "plus" -> RunEnds(a.cls, s, i)
      [] a.q = "group" -> VerTailEnds(s, i)

\* every position at which atoms k.. of pat may end when started at i
RECURSIVE MatchEnds(_, _, _, _)
MatchEnds(pat, k, s, i) ==
    IF k > Len(pat) THEN {i}
    ELSE UNION {MatchEnds(pat, k + 1, s, e) : e \in AtomEnds(pat[k], s, i)}

\* regex \b at the gap before position i
WordBoundary(s, i) ==
    LET before == i > 1 /\ IsWord(s[i - 1])
        after == i <= Len(s) /\ IsWord(s[i])
    IN before # after

SetMax(S) == CHOOSE m \in S : \A x \in S : x <= m

\* where the match of \b pat \b that starts at i ends (0: no match); the
\* quantifiers are greedy, and for these patterns the first match the
\* regex engine finds is the longest one that ends at a word boundary
JunkMatchEnd(pat, s, i) ==
    IF ~WordBoundary(s, i) THEN 0
    ELSE LET ends == {e \in MatchEnds(pat, 1, s, i) : WordBoundary(s, e)}
         IN IF ends = {} THEN 0 ELSE SetMax(ends)

\* re.sub(rf'\b{j}\b', '', n, flags=re.IGNORECASE)
RECURSIVE SubJunkFrom(_, _, _)
SubJunkFrom(pat, s, i) ==
    IF i > Len(s) THEN << >>
    ELSE LET e == JunkMatchEnd(pat, s, i)
         IN IF e > i THEN SubJunkFrom(pat, s, e)
            ELSE <<s[i]>> \o SubJunkFrom(pat, s, i + 1)

\* for j in junk: n = re.sub(...), the patterns lo..hi applied in list order
RECURSIVE SubAllJunk(_, _, _)
SubAllJunk(s, lo, hi) ==
    IF lo > hi THEN s
    ELSE IF lo = hi THEN SubJunkFrom(junk[lo], s, 1)
    ELSE LET mid == (lo + hi) \div 2
             half == SubAllJunk(s, lo, mid)
         IN IF Len(half) = 0 THEN << >> ELSE SubAllJunk(half, mid + 1, hi)

\* first position >= i holding character c (0: none)
RECURSIVE FindChar(_, _, _)
FindChar(c, s, i) ==
    IF i > Len(s) THEN 0
    ELSE IF s[i] = c THEN i ELSE FindChar(c, s, i + 1)

\* re.sub(r'\[.*?\]', '', n) and re.sub(r'\(.*?\)', '', n): non-greedy
RECURSIVE SubSpan(_, _, _, _)
SubSpan(open, close, s, i) ==
    IF i > Len(s) THEN << >>
    ELSE LET j == IF s[i] = open THEN FindChar(close, s, i + 1) ELSE 0
         IN IF j > 0 THEN SubSpan(open, close, s, j + 1)
            ELSE <<s[i]>> \o SubSpan(open, close, s, i + 1)

\* re.sub(r'\((?:19|20)\d{2}\)', '', n)
IsYearAt(s, i) ==
    /\ i + 5 <= Len(s)
    /\ s[i] = "("
    /\ <<s[i + 1], s[i + 2]>> \in {<<"1", "9">>, <<"2", "0">>}
    /\ s[i + 3] \in Digits
    /\ s[i + 4] \in Digits
    /\ s[i + 5] = ")"

RECURSIVE SubYear(_, _)
SubYear(s, i) ==
    IF i > Len(s) THEN << >>
    ELSE IF IsYearAt(s, i) THEN SubYear(s, i + 6)
    ELSE <<s[i]>> \o SubYear(s, i + 1)

\* the separators trimmed at both ends, r'^[\s\-<dashes>_.:]+|[\s\-<dashes>_.:]+$'
\* (the en and em dashes of the class are not in the model's alphabet)
Separators == {" ", "-", "_", ".", ":"}

RECURSIVE StripLeft(_)
StripLeft(s) ==
    IF s # << >> /\ s[1] \in Separators THEN StripLeft(Tail(s)) ELSE s

RECURSIVE StripRight(_)
StripRight(s) ==
    IF s # << >> /\ s[Len(s)] \in Separators
    THEN StripRight(SubSeq(s, 1, Len(s) - 1)) ELSE s

\* ' '.join(n.split())
RECURSIVE CollapseSpaces(_, _, _)
CollapseSpaces(s, i, out) ==
    IF i > Len(s) THEN out
    ELSE IF s[i] = " " THEN CollapseSpaces(s, i + 1, out)
    ELSE CollapseSpaces(s, i + 1,
             out \o (IF out # << >> /\ s[i - 1] = " " THEN <<" ">> ELSE << >>)
                 \o <<s[i]>>)

ReplaceDots(s) == [i \in 1..Len(s) |-> IF s[i] \in {".", "_"} THEN " " ELSE s[i]]

_clean_name(name) ==
    LET n0 == ReplaceDots(name)
        n1 == SubAllJunk(n0, 1, Len(junk))
        n2 == SubSpan("[", "]", n1, 1)
        n3 == SubYear(n2, 1)
        n4 == SubSpan("(", ")", n3, 1)
        n5 == StripRight(StripLeft(n4))
    IN CollapseSpaces(n5, 1, << >>)

(***************************************************************************)
(* Cache keys and cache paths                                              *)
(***************************************************************************)
\* hashlib.md5(s.encode()).hexdigest(): a symbolic digest, one per input
\* (collisions of MD5 are not modelled); its characters are lower-case hex
Md5Hex(s) == <<"md5:">> \o s

IsDigest(s) == s # << >> /\ s[1] \in {"md5:", "md5[:12]:"}

\* hexdigest()[:12]
First12(d) == <<"md5[:12]:">> \o Tail(d)

\* str.lower(); a hex digest is already lower case
LowerStr(s) == IF IsDigest(s) THEN s ELSE [i \in 1..Len(s) |-> LowerChar(s[i])]

JpgName(h) == h \o <<".jpg">>

\* get_cover: cache_dir / f"{md5(str(key_id).lower())[:12]}.jpg"; the cache
\* directory is the same for every component, a path is its file name
CachePathOfKey(key_id) == JpgName(First12(Md5Hex(LowerStr(key_id))))

\* a faulty key: the title takes part in the key of a request that has a
\* stable identifier
KeyId_WithTitle(clean_name, app_id) ==
    IF Truthy(app_id) THEN app_id \o clean_name ELSE Md5Hex(clean_name)

KeyId(clean_name, app_id) == IF Truthy(app_id) THEN app_id ELSE Md5Hex(clean_name)

CachePath(clean_name, app_id) == CachePathOfKey(KeyId(clean_name, app_id))


\* SteamScanner.scan: md5(aid.lower())[:12] + ".jpg"
SteamScanPath(aid) == JpgName(First12(Md5Hex(LowerStr(aid))))

\* DiskScanner.scan: md5(clean_name)[:12] + ".jpg"
DiskScanPath(clean_name) == JpgName(First12(Md5Hex(clean_name)))

(***************************************************************************)
(* Inputs and environment                                                  *)
(***************************************************************************)
\* titles handed to get_cover: two that normalise to the same name
Titles ==
    { <<"D", "m">>,
      <<"D", "m", " ", "[", "x", "]">> }

\* titles for the cache-key derivation alone
KeyTitles ==
    Titles \cup
    { <<"D", "o", "o", "m", ".", "C", "O", "D", "E", "X">>,
      <<"d", "o", "o", "m", " ", "(", "2", "0", "1", "6", ")">>,
      <<"D", "o", "o", "m">>,
      <<"G", "O", "G">> }

KeyAppIds == { <<"7">>, <<"8">>, <<"a", "7">>, <<"A", "7">> }


AppIds == { <<"7">> }

ExePaths == { <<"g", ".", "e", "x", "e">> }

\* GameModel.exe_path of a Steam game, f"steam://rungameid/{aid}"
SteamUrl(aid) == <<"steam://rungameid/">> \o aid

IsSteamUrl(p) == p # << >> /\ p[1] = "steam://rungameid/"

ApiKeys == { <<"k">> }

Urls == {"u1"}

GameIds == {"g1"}

\* a JSON object that lacks the key
Missing == "missing"

MaxGrids == 1

MinValidSize == 2048

\* sizes of the bodies a download may receive and of an embedded icon
BodySizes == {2048, 5000}

IconSizes == {1000}

NoFile == -1

\* times are in ticks of 50 ms: _min_delay = 0.25 and 0.1, time.sleep(0.2),
\* random.uniform(0.5, 1.0)
SGDB_MIN_DELAY == 5

RAWG_MIN_DELAY == 2

STORE_SEARCH_PAUSE == 4

DDG_DELAY_MIN == 10

DDG_DELAY_MAX == 20

\* time.time() when the clients are built: _last_request_time = 0 of a
\* fresh client lies at least one minimum delay in the past
StartTime == SGDB_MIN_DELAY

SeqsUpTo(S, n) == UNION {[1..k -> S] : k \in 0..n}

Grid == [tall : BOOLEAN, url : Urls \cup {Missing}]

\* the body of a 200 response of SteamGridDB, as the code reads it:
\* whether it is a JSON object, its 'success', and its 'data' list
NoData == [isDict |-> FALSE, success |-> FALSE, data |-> << >>, none |-> TRUE]

NotADict == [isDict |-> FALSE, success |-> FALSE, data |-> << >>, none |-> FALSE]

GridBodies ==
    {NotADict} \cup
    [isDict : {TRUE}, success : BOOLEAN, data : SeqsUpTo(Grid, MaxGrids), none : {FALSE}]

SearchBodies ==
    {NotADict} \cup
    [isDict : {TRUE}, success : BOOLEAN,
     data : SeqsUpTo([id : GameIds \cup {Missing}], 1), none : {FALSE}]

\* what urlopen does for an API request: 200 with a JSON body, HTTP 401,
\* or anything else (another status, a timeout, a body that is not JSON)
ApiOutcomes(bodies) ==
    [kind : {"ok"}, body : bodies] \cup [kind : {"401", "err"}, body : {NoData}]

\* RAWG: a 200 whose first result carries an image URL, a 200 without one,
\* HTTP 401, or anything else
RawgOutcomes ==
    [kind : {"ok"}, image : Urls \cup {""}] \cup [kind : {"401", "err"}, image : {""}]

\* a download: a 200 with a body of some size, or any failure
DownloadOutcomes ==
    [kind : {"ok"}, size : BodySizes] \cup [kind : {"fail"}, size : {0}]

\* the storefront search: the first match's id, or nothing usable
StoreOutcomes == [kind : {"found"}, id : AppIds] \cup [kind : {"none"}, id : {None}]

\* the image search: one result, or none or an exception
DdgOutcomes == {"result", "none"}

\* icoextract on the executable: get_icon gives the bytes of an icon of some
\* size, or gives what f.write refuses (a stream object) or cannot store,
\* or anything before that fails; a steam:// URL is no file, opening it
\* always fails
IconOutcomes(exe_path) ==
    (IF IsSteamUrl(exe_path) THEN {}
     ELSE [kind : {"icon"}, size : IconSizes] \cup [kind : {"unwritable"}, size : {0}])
        \cup [kind : {"fail"}, size : {0}]

(***************************************************************************)
(* SteamGridDBClient                                                       *)
(***************************************************************************)
\* SteamGridDBClient.__init__ / RAWGClient.__init__
NewClient(api_key, min_delay) ==
    [api_key |-> api_key, session_cache |-> << >>, last |-> 0, min_delay |-> min_delay]

\* the value of a CoverAPIManager attribute that holds no client
NoClient == [api_key |-> None, session_cache |-> << >>, last |-> 0, min_delay |-> 0]

\* a faulty limiter: _last_request_time is taken before the sleep
WaitRateLimit_StampBeforeSleep(c, t, over) ==
    LET elapsed == t - c.last
        t1 == IF elapsed < c.min_delay THEN t + (c.min_delay - elapsed) + over ELSE t
    IN [c |-> [c EXCEPT !.last = t], t |-> t1, slept |-> t1 > t]

\* _wait_rate_limit at time t; over is by how much time.sleep overshoots
WaitRateLimit(c, t, over) ==
    LET elapsed == t - c.last
        t1 == IF elapsed < c.min_delay THEN t + (c.min_delay - elapsed) + over ELSE t
    IN [c |-> [c EXCEPT !.last = t1], t |-> t1, slept |-> t1 > t]

\* SteamGridDBClient._make_request
MakeRequest(c, t, over, out) ==
    IF ~Truthy(c.api_key)
    THEN [c |-> c, t |-> t, data |-> NoData, sent |-> FALSE, slept |-> FALSE]
    ELSE LET w == WaitRateLimit(c, t, over)
         IN [c |-> IF out.kind = "401" THEN [w.c EXCEPT !.api_key = None] ELSE w.c,
             t |-> w.t,
             data |-> IF out.kind = "ok" THEN out.body ELSE NoData,
             sent |-> TRUE,
             slept |-> w.slept]

\* `data and data.get('success') and data.get('data')`: raises on a JSON
\* value that is not an object
Usable(data) == ~data.none /\ data.isDict /\ data.success /\ data.data # << >>

RaisesOnGet(data) == ~data.none /\ ~data.isDict

SelectUrls(grids, P(_)) ==
    LET idx == {i \in 1..Len(grids) : P(grids[i])}
        F[n \in 0..Len(grids)] ==
            IF n = 0 THEN << >>
            ELSE IF n \in idx THEN Append(F[n - 1], grids[n].url) ELSE F[n - 1]
    IN F[Len(grids)]

IsTall(g) == g.tall

AnyGrid(g) == TRUE

\* the url selection shared by get_grids_by_steam_id and
\* get_grids_by_game_id: 600x900 grids first, else the first three of any
GridUrls(data) ==
    IF RaisesOnGet(data) THEN [raised |-> TRUE, urls |-> << >>]
    ELSE IF ~Usable(data) THEN [raised |-> FALSE, urls |-> << >>]
    ELSE LET grids == data.data
             tall == SelectUrls(grids, IsTall)
             first3 == SubSeq(grids, 1, IF Len(grids) < 3 THEN Len(grids) ELSE 3)
             any == SelectUrls(first3, AnyGrid)
         IN IF \E i \in 1..Len(tall) : tall[i] = Missing
            THEN [raised |-> TRUE, urls |-> << >>]
            ELSE IF tall # << >> THEN [raised |-> FALSE, urls |-> tall]
            ELSE IF \E i \in 1..Len(any) : any[i] = Missing
            THEN [raised |-> TRUE, urls |-> << >>]
            ELSE [raised |-> FALSE, urls |-> any]

HasMemo(c, key) == key \in DOMAIN c.session_cache

PutMemo(c, key, val) == [c EXCEPT !.session_cache = (key :> val) @@ @]

\* get_grids_by_steam_id (prefix "steam_") and get_grids_by_game_id
\* (prefix "sgdb_")
GetGrids(c, t, over, prefix, id, out) ==
    LET key == <<prefix, id>>
    IN IF HasMemo(c, key)
       THEN [c |-> c, t |-> t, urls |-> c.session_cache[key],
             sent |-> FALSE, slept |-> FALSE, raised |-> FALSE]
       ELSE LET r == MakeRequest(c, t, over, out)
                g == GridUrls(r.data)
            IN [c |-> IF g.raised THEN r.c ELSE PutMemo(r.c, key, g.urls),
                t |-> r.t, urls |-> g.urls,
                sent |-> r.sent, slept |-> r.slept, raised |-> g.raised]

get_grids_by_steam_id(c, t, over, steam_app_id, out) ==
    GetGrids(c, t, over, "steam_", steam_app_id, out)

get_grids_by_game_id(c, t, over, game_id, out) ==
    GetGrids(c, t, over, "sgdb_", game_id, out)

\* SteamGridDBClient.search_game: the id of the first game, not memoized
sgdb_search_game(c, t, over, game_name, out) ==
    LET r == MakeRequest(c, t, over, out)
        bad == RaisesOnGet(r.data) \/ (Usable(r.data) /\ r.data.data[1].id = Missing)
    IN [c |-> r.c, t |-> r.t,
        game_id |-> IF ~bad /\ Usable(r.data) THEN r.data.data[1].id ELSE "",
        sent |-> r.sent, slept |-> r.slept, raised |-> bad]

(***************************************************************************)
(* RAWGClient                                                              *)
(***************************************************************************)
\* RAWGClient.search_game: the memo key is the lower-cased name
rawg_search_game(c, t, over, game_name, out) ==
    LET key == <<"rawg_", LowerStr(game_name)>>
    IN IF ~Truthy(c.api_key)
       THEN [c |-> c, t |-> t, image |-> "", sent |-> FALSE, slept |-> FALSE]
       ELSE IF HasMemo(c, key)
       THEN [c |-> c, t |-> t, image |-> c.session_cache[key],
             sent |-> FALSE, slept |-> FALSE]
       ELSE LET w == WaitRateLimit(c, t, over)
                image == IF out.kind = "ok" THEN out.image ELSE ""
            IN [c |-> PutMemo(w.c, key, image), t |-> w.t, image |-> image,
                sent |-> TRUE, slept |-> w.slept]

(***************************************************************************)
(* IconExtractor probes and CoverAPIManager._download_image                *)
(***************************************************************************)
\* a faulty download: True for every 200, the size check guarding the write
\* alone
Download_Unchecked(fs, save_path, out) ==
    IF out.kind = "ok"
    THEN [ok |-> TRUE,
          files |-> IF out.size > MinValidSize
                    THEN [fs EXCEPT ![save_path] = out.size] ELSE fs,
          wrote |-> out.size > MinValidSize]
    ELSE [ok |-> FALSE, files |-> fs, wrote |-> FALSE]

\* _download_file and _download_image: the body is written only when the
\* response is a 200 larger than 2048 bytes; every exception gives False
Download(fs, save_path, out) ==
    IF out.kind = "ok" /\ out.size > MinValidSize
    THEN [ok |-> TRUE, files |-> [fs EXCEPT ![save_path] = out.size], wrote |-> TRUE]
    ELSE [ok |-> FALSE, files |-> fs, wrote |-> FALSE]

\* _download_steam_cover: the candidate URLs, in the order of the list
CdnUrls ==
    << "cloudflare/library_600x900.jpg",
       "akamaihd/library_600x900.jpg",
       "cloudflare/header.jpg",
       "cloudflare/capsule_616x353.jpg" >>

\* _extract_exe_icon: the icon's bytes are written whatever their number;
\* open(save_path, 'wb') comes before f.write, so a write that raises
\* leaves the file empty
extract_exe_icon(fs, has_icoextract, exe_path, save_path, out) ==
    IF ~has_icoextract \/ ~Truthy(exe_path) THEN [ok |-> FALSE, files |-> fs]
    ELSE IF out.kind = "icon"
    THEN [ok |-> TRUE, files |-> [fs EXCEPT ![save_path] = out.size]]
    ELSE IF out.kind = "unwritable"
    THEN [ok |-> FALSE, files |-> [fs EXCEPT ![save_path] = 0]]
    ELSE [ok |-> FALSE, files |-> fs]

\* the validity test of the scanners' pre-check: exists and size > 2048
PreCheckValid(fs, path) == fs[path] # NoFile /\ fs[path] > MinValidSize

(***************************************************************************)
(* State                                                                   *)
(***************************************************************************)
VARIABLES
    sgdb,           \* CoverAPIManager.sgdb: a SteamGridDBClient or NoClient
    rawg,           \* CoverAPIManager.rawg: a RAWGClient or NoClient
    search_cache,   \* IconExtractor._search_cache
    files,          \* the cache directory: file name -> size, or NoFile
    now,            \* time.time(), in ticks
    env,            \* HAS_DDG and HAS_ICOEXTRACT, fixed at import
    keys,           \* the sgdb_key and rawg_key the manager was built with
    norm,           \* _clean_name of every title of the model, computed once
    pc,             \* where the get_cover activation stands
    req,            \* its arguments, clean_name and cache_path, its caller
    loc,            \* its locals: urls left to try, CDN candidate, app id
    result,         \* the (path, source) it returned
    attempts,       \* history: the tiers attempted by this call, in order
    events,         \* history: <<tier, kind>> of every request, delay, write
    sent,           \* history: dispatches of each client's requests
    got401,         \* history: the clients that received an HTTP 401
    reply,          \* history: what the last client query returned
    queries,        \* history: the client queries made, with their results
    games,          \* GameManager._games, uid -> entry
    library,        \* the persisted inventory file library.json
    vlog,           \* history: the last inventory or validator operation
    tasks,          \* the coroutines and handler threads of the launcher
    prev,           \* history: the cache-key derivation before the last
    cur             \* history: the last cache-key derivation

clients == <<sgdb, rawg>>

call == <<pc, req, loc, result, attempts, events>>

clientHist == <<sent, got401, reply, queries>>

keyHist == <<prev, cur>>

fixed == <<env, keys, norm>>

inventory == <<games, library, vlog>>

vars == <<sgdb, rawg, search_cache, files, now, env, keys, norm, pc, req, loc, result,
          attempts, events, sent, got401, reply, queries, games, library, vlog,
          tasks, prev, cur>>

\* self.icon_extractor._clean_name(game_title)
CleanName(t) == norm[t]

\* the first three lines of get_cover: from the arguments to cache_path
get_cover_path(game_title, app_id) == CachePath(CleanName(game_title), app_id)

\* a faulty search: a title that was not found is not remembered
search_steam_id_by_name_ForgetsNone(cache, t, name, out) ==
    LET clean_name == CleanName(name)
    IN IF Len(clean_name) < 2
       THEN [cache |-> cache, t |-> t, id |-> None, sent |-> FALSE, slept |-> FALSE]
       ELSE IF clean_name \in DOMAIN cache
       THEN [cache |-> cache, t |-> t, id |-> cache[clean_name],
             sent |-> FALSE, slept |-> FALSE]
       ELSE IF out.kind = "found"
       THEN [cache |-> (clean_name :> out.id) @@ cache, t |-> t, id |-> out.id,
             sent |-> TRUE, slept |-> FALSE]
       ELSE [cache |-> cache, t |-> t + STORE_SEARCH_PAUSE,
             id |-> None, sent |-> TRUE, slept |-> TRUE]

\* _search_steam_id_by_name
search_steam_id_by_name(cache, t, name, out) ==
    LET clean_name == CleanName(name)
    IN IF Len(clean_name) < 2
       THEN [cache |-> cache, t |-> t, id |-> None, sent |-> FALSE, slept |-> FALSE]
       ELSE IF clean_name \in DOMAIN cache
       THEN [cache |-> cache, t |-> t, id |-> cache[clean_name],
             sent |-> FALSE, slept |-> FALSE]
       ELSE IF out.kind = "found"
       THEN [cache |-> (clean_name :> out.id) @@ cache, t |-> t, id |-> out.id,
             sent |-> TRUE, slept |-> FALSE]
       ELSE [cache |-> (clean_name :> None) @@ cache, t |-> t + STORE_SEARCH_PAUSE,
             id |-> None, sent |-> TRUE, slept |-> TRUE]

\* the file names the model's requests and pre-checks can name
AllPaths ==
    {CachePath(_clean_name(t), a) : t \in Titles, a \in AppIds \cup {None}}
        \cup {DiskScanPath(_clean_name(t)) : t \in Titles}

\* the tiers, in the order of get_cover
T_SGDB_ID == 1
T_CDN == 2
T_RAWG == 3
T_STORE == 4
T_SGDB_NAME == 5
T_DDG == 6
T_EXE == 7

NoReq == [title |-> None, app_id |-> None, exe_path |-> None,
          clean_name |-> None, cache_path |-> None, caller |-> "none",
          had_valid |-> FALSE]

NoLoc == [urls |-> << >>, i |-> 0, id |-> None]

NoResult == [path |-> None, source |-> "", tier |-> 0]

NoSent == [n |-> 0, first |-> 0, prev |-> 0, last |-> 0]

NoReply == [client |-> "none", sent |-> FALSE, empty |-> TRUE, raised |-> FALSE,
            after401 |-> FALSE]

NoQueries == [seen |-> << >>, repeat |-> FALSE, same |-> FALSE, sent |-> FALSE,
              limiter |-> FALSE, op |-> ""]

NoKey == [title |-> None, app_id |-> None, path |-> None]

\* CoverAPIManager.__init__
NewSgdb(sgdb_key) ==
    IF Truthy(sgdb_key) THEN NewClient(sgdb_key, SGDB_MIN_DELAY) ELSE NoClient

NewRawg(rawg_key) ==
    IF Truthy(rawg_key) THEN NewClient(rawg_key, RAWG_MIN_DELAY) ELSE NoClient

InitCall ==
    /\ pc = "idle"
    /\ req = NoReq
    /\ loc = NoLoc
    /\ result = NoResult
    /\ attempts = << >>
    /\ events = {}

\* no task of the launcher is looked at
NoTasks == [at |-> << >>, loop |-> "free"]

InitHist ==
    /\ tasks = NoTasks
    /\ sent = [sgdb |-> NoSent, rawg |-> NoSent]
    /\ got401 = {}
    /\ reply = NoReply
    /\ queries = NoQueries
    /\ prev = NoKey
    /\ cur = NoKey

\* library.json: absent, not parseable, or a JSON object with its games
LibMissing == [state |-> "missing", games |-> << >>]

LibUnreadable == [state |-> "unreadable", games |-> << >>]

LibFile(gs) == [state |-> "ok", games |-> gs]

NoVlog == [op |-> "none"]

\* self._games = {} and no inventory file yet
InitInventory ==
    /\ games = << >>
    /\ library = LibMissing
    /\ vlog = NoVlog

\* GameManager.__init__ on a fresh cache directory, with the keys of the
\* settings file
Init ==
    /\ keys \in [sgdb_key : ApiKeys \cup {None}, rawg_key : ApiKeys \cup {None}]
    /\ norm = [t \in KeyTitles |-> _clean_name(t)]
    /\ sgdb = NewSgdb(keys.sgdb_key)
    /\ rawg = NewRawg(keys.rawg_key)
    /\ search_cache = << >>
    /\ files = [p \in AllPaths |-> NoFile]
    /\ now = StartTime
    /\ env \in [HAS_DDG : BOOLEAN, HAS_ICOEXTRACT : BOOLEAN]
    /\ InitCall
    /\ InitHist
    /\ InitInventory

(***************************************************************************)
(* CoverAPIManager.get_cover                                               *)
(***************************************************************************)
Ev(tier, net, slept, wrote) ==
    {<<tier, k>> : k \in {x \in {"net", "delay", "write"} :
                             \/ x = "net" /\ net
                             \/ x = "delay" /\ slept
                             \/ x = "write" /\ wrote}}

\* the first three lines of get_cover
Enter(game_title, app_id, exe_path, caller) ==
    /\ req' = [title |-> game_title, app_id |-> app_id, exe_path |-> exe_path,
               clean_name |-> CleanName(game_title),
               cache_path |-> get_cover_path(game_title, app_id),
               caller |-> caller,
               had_valid |-> files'[get_cover_path(game_title, app_id)] > MinValidSize]
    /\ pc' = "sgdb_id"
    /\ loc' = NoLoc
    /\ result' = NoResult
    /\ attempts' = << >>
    /\ events' = {}

\* a faulty success: the result is kept but get_cover goes on to the last
\* tier instead of returning
ReturnCover_FallsThrough(source, tier) ==
    /\ pc' = "exe"
    /\ result' = [path |-> req.cache_path, source |-> source, tier |-> tier]
    /\ loc' = NoLoc

\* return (str(cache_path), source)
ReturnCover(source, tier) ==
    /\ pc' = "done"
    /\ result' = [path |-> req.cache_path, source |-> source, tier |-> tier]
    /\ loc' = NoLoc

\* return (None, "None")
ReturnNone ==
    /\ pc' = "done"
    /\ result' = [path |-> None, source |-> "None", tier |-> 0]
    /\ loc' = NoLoc

\* an exception leaves get_cover
Raise ==
    /\ pc' = "raised"
    /\ result' = NoResult
    /\ loc' = NoLoc

\* Tier 2 of the source: SteamGridDB by Steam App ID, the query
SgdbById ==
    /\ pc = "sgdb_id"
    /\ IF Truthy(req.app_id) /\ sgdb # NoClient
       THEN \E out \in ApiOutcomes(GridBodies) :
              LET r == get_grids_by_steam_id(sgdb, now, 0, req.app_id, out)
              IN /\ sgdb' = r.c
                 /\ now' = r.t
                 /\ attempts' = Append(attempts, T_SGDB_ID)
                 /\ events' = events \cup Ev(T_SGDB_ID, r.sent, r.slept, FALSE)
                 /\ IF r.raised
                    THEN Raise
                    ELSE /\ pc' = "sgdb_id_dl"
                         /\ loc' = [loc EXCEPT !.urls = r.urls]
                         /\ UNCHANGED result
       ELSE /\ pc' = "cdn"
            /\ UNCHANGED <<sgdb, now, attempts, events, loc, result>>
    /\ UNCHANGED <<rawg, search_cache, files, fixed, tasks, inventory, req, clientHist, keyHist>>

\* for url in urls: if self._download_image(url, cache_path): return
GridDownload(at, tier, next) ==
    /\ pc = at
    /\ IF loc.urls = << >>
       THEN /\ pc' = next
            /\ loc' = NoLoc
            /\ UNCHANGED <<files, events, result>>
       ELSE \E out \in DownloadOutcomes :
              LET d == Download(files, req.cache_path, out)
              IN /\ files' = d.files
                 /\ events' = events \cup Ev(tier, TRUE, FALSE, d.wrote)
                 /\ IF d.ok
                    THEN ReturnCover("SteamGridDB", tier)
                    ELSE /\ pc' = at
                         /\ loc' = [loc EXCEPT !.urls = Tail(@)]
                         /\ UNCHANGED result
    /\ UNCHANGED <<clients, search_cache, now, fixed, tasks, inventory, req, attempts,
                   clientHist, keyHist>>

\* a faulty fall-through: a failed Tier 2 goes on to RAWG, past the CDN
SgdbByIdDownload_SkipsCdn == GridDownload("sgdb_id_dl", T_SGDB_ID, "rawg")

SgdbByIdDownload == GridDownload("sgdb_id_dl", T_SGDB_ID, "cdn")

\* a faulty Tier 3: the CDN is tried without `if app_id`
SteamCdn_Unguarded ==
    /\ pc = "cdn"
    /\ pc' = "cdn_dl"
    /\ loc' = [loc EXCEPT !.i = 1, !.id = req.app_id]
    /\ attempts' = Append(attempts, T_CDN)
    /\ UNCHANGED <<clients, search_cache, files, now, fixed, tasks, inventory, req, result,
                   events, clientHist, keyHist>>

\* Tier 3 of the source: Steam Direct CDN
SteamCdn ==
    /\ pc = "cdn"
    /\ IF Truthy(req.app_id)
       THEN /\ pc' = "cdn_dl"
            /\ loc' = [loc EXCEPT !.i = 1, !.id = req.app_id]
            /\ attempts' = Append(attempts, T_CDN)
       ELSE /\ pc' = "rawg"
            /\ UNCHANGED <<loc, attempts>>
    /\ UNCHANGED <<clients, search_cache, files, now, fixed, tasks, inventory, req, result,
                   events, clientHist, keyHist>>

\* the history of a request of _download_steam_cover: the candidate asked
\* for, the rank of the request in the walk, whether the response was a 200
\* with a body above the threshold, and the size written, if any
Fetched(tier, i, out, wrote) ==
    {<<tier, "url", i,
       Cardinality({e \in events : e[1] = tier /\ e[2] = "url"}) + 1,
       out.kind = "ok" /\ out.size > MinValidSize,
       IF wrote THEN out.size ELSE 0>>}

\* a faulty walk: after a failure the next candidate is passed over
CdnDownload_Skips(at, tier, source, next) ==
    /\ pc = at
    /\ IF loc.i > Len(CdnUrls)
       THEN /\ pc' = next
            /\ loc' = NoLoc
            /\ UNCHANGED <<files, events, result>>
       ELSE \E out \in DownloadOutcomes :
              LET d == Download(files, req.cache_path, out)
              IN /\ files' = d.files
                 /\ events' = events \cup Ev(tier, TRUE, FALSE, d.wrote)
                                     \cup Fetched(tier, loc.i, out, d.wrote)
                 /\ IF d.ok
                    THEN ReturnCover(source, tier)
                    ELSE /\ pc' = at
                         /\ loc' = [loc EXCEPT !.i = @ + 2]
                         /\ UNCHANGED result
    /\ UNCHANGED <<clients, search_cache, now, fixed, tasks, inventory, req, attempts,
                   clientHist, keyHist>>

\* _download_steam_cover: for url in urls: if self._download_file(...)
CdnDownload(at, tier, source, next) ==
    /\ pc = at
    /\ IF loc.i > Len(CdnUrls)
       THEN /\ pc' = next
            /\ loc' = NoLoc
            /\ UNCHANGED <<files, events, result>>
       ELSE \E out \in DownloadOutcomes :
              LET d == Download(files, req.cache_path, out)
              IN /\ files' = d.files
                 /\ events' = events \cup Ev(tier, TRUE, FALSE, d.wrote)
                                     \cup Fetched(tier, loc.i, out, d.wrote)
                 /\ IF d.ok
                    THEN ReturnCover(source, tier)
                    ELSE /\ pc' = at
                         /\ loc' = [loc EXCEPT !.i = @ + 1]
                         /\ UNCHANGED result
    /\ UNCHANGED <<clients, search_cache, now, fixed, tasks, inventory, req, attempts,
                   clientHist, keyHist>>

SteamCdnDownload == CdnDownload("cdn_dl", T_CDN, "Steam CDN", "rawg")

\* Tier 4 of the source: RAWG.io search by clean name
Rawg ==
    /\ pc = "rawg"
    /\ IF rawg # NoClient
       THEN \E out \in RawgOutcomes :
              LET r == rawg_search_game(rawg, now, 0, req.clean_name, out)
              IN /\ rawg' = r.c
                 /\ now' = r.t
                 /\ attempts' = Append(attempts, T_RAWG)
                 /\ events' = events \cup Ev(T_RAWG, r.sent, r.slept, FALSE)
                 /\ IF r.image # ""
                    THEN /\ pc' = "rawg_dl"
                         /\ loc' = [loc EXCEPT !.urls = <<r.image>>]
                    ELSE /\ pc' = "store"
                         /\ UNCHANGED loc
       ELSE /\ pc' = "store"
            /\ UNCHANGED <<rawg, now, attempts, events, loc>>
    /\ UNCHANGED <<sgdb, search_cache, files, fixed, tasks, inventory, req, result,
                   clientHist, keyHist>>

\* if self._download_image(image_url, cache_path): return
RawgDownload ==
    /\ pc = "rawg_dl"
    /\ \E out \in DownloadOutcomes :
         LET d == Download(files, req.cache_path, out)
         IN /\ files' = d.files
            /\ events' = events \cup Ev(T_RAWG, TRUE, FALSE, d.wrote)
            /\ IF d.ok
               THEN ReturnCover("RAWG.io", T_RAWG)
               ELSE /\ pc' = "store"
                    /\ loc' = NoLoc
                    /\ UNCHANGED result
    /\ UNCHANGED <<clients, search_cache, now, fixed, tasks, inventory, req, attempts,
                   clientHist, keyHist>>

\* Tier 5 of the source: Steam store search, by the raw title
StoreSearch ==
    /\ pc = "store"
    /\ \E out \in StoreOutcomes :
         LET r == search_steam_id_by_name(search_cache, now, req.title, out)
         IN /\ search_cache' = r.cache
            /\ now' = r.t
            /\ attempts' = Append(attempts, T_STORE)
            /\ events' = events \cup Ev(T_STORE, r.sent, r.slept, FALSE)
            /\ IF Truthy(r.id)
               THEN /\ pc' = "store_dl"
                    /\ loc' = [loc EXCEPT !.i = 1, !.id = r.id]
               ELSE /\ pc' = "sgdb_name"
                    /\ UNCHANGED loc
    /\ UNCHANGED <<clients, files, fixed, tasks, inventory, req, result, clientHist, keyHist>>

\* a faulty Tier 5: the tag of Tier 3 copied with its code
StoreSearchDownload_CdnTag == CdnDownload("store_dl", T_STORE, "Steam CDN", "sgdb_name")

StoreSearchDownload == CdnDownload("store_dl", T_STORE, "Steam Store", "sgdb_name")

\* Tier 6 of the source: SteamGridDB search by clean name
SgdbSearch ==
    /\ pc = "sgdb_name"
    /\ IF sgdb # NoClient
       THEN \E out \in ApiOutcomes(SearchBodies) :
              LET r == sgdb_search_game(sgdb, now, 0, req.clean_name, out)
              IN /\ sgdb' = r.c
                 /\ now' = r.t
                 /\ attempts' = Append(attempts, T_SGDB_NAME)
                 /\ events' = events \cup Ev(T_SGDB_NAME, r.sent, r.slept, FALSE)
                 /\ IF r.raised
                    THEN Raise
                    ELSE /\ UNCHANGED result
                         /\ IF r.game_id # ""
                            THEN /\ pc' = "sgdb_grids"
                                 /\ loc' = [loc EXCEPT !.id = r.game_id]
                            ELSE /\ pc' = "ddg"
                                 /\ UNCHANGED loc
       ELSE /\ pc' = "ddg"
            /\ UNCHANGED <<sgdb, now, attempts, events, loc, result>>
    /\ UNCHANGED <<rawg, search_cache, files, fixed, tasks, inventory, req, clientHist, keyHist>>

\* urls = self.sgdb.get_grids_by_game_id(game_id)
SgdbByGameId ==
    /\ pc = "sgdb_grids"
    /\ \E out \in ApiOutcomes(GridBodies) :
         LET r == get_grids_by_game_id(sgdb, now, 0, loc.id, out)
         IN /\ sgdb' = r.c
            /\ now' = r.t
            /\ events' = events \cup Ev(T_SGDB_NAME, r.sent, r.slept, FALSE)
            /\ IF r.raised
               THEN Raise
               ELSE /\ pc' = "sgdb_name_dl"
                    /\ loc' = [loc EXCEPT !.urls = r.urls]
                    /\ UNCHANGED result
    /\ UNCHANGED <<rawg, search_cache, files, fixed, tasks, inventory, req, attempts,
                   clientHist, keyHist>>

SgdbByNameDownload == GridDownload("sgdb_name_dl", T_SGDB_NAME, "ddg")

\* Tier 7 of the source: _search_duckduckgo, the random delay, the one
\* query and the download of its single result
DuckDuckGo ==
    /\ pc = "ddg"
    /\ attempts' = Append(attempts, T_DDG)
    /\ IF ~env.HAS_DDG
       THEN /\ pc' = "exe"
            /\ UNCHANGED <<now, files, events, result, loc>>
       ELSE \E delay \in {DDG_DELAY_MIN, DDG_DELAY_MAX}, q \in DdgOutcomes,
               out \in DownloadOutcomes :
              LET d == IF q = "result"
                       THEN Download(files, req.cache_path, out)
                       ELSE [ok |-> FALSE, files |-> files, wrote |-> FALSE]
              IN /\ now' = now + delay
                 /\ files' = d.files
                 /\ events' = events \cup Ev(T_DDG, TRUE, TRUE, d.wrote)
                 /\ IF d.ok
                    THEN ReturnCover("DuckDuckGo", T_DDG)
                    ELSE /\ pc' = "exe"
                         /\ UNCHANGED <<result, loc>>
    /\ UNCHANGED <<clients, search_cache, fixed, tasks, inventory, req, clientHist, keyHist>>

\* Tier 8 of the source: EXE icon, then return (None, "None")
ExeIcon ==
    /\ pc = "exe"
    /\ IF Truthy(req.exe_path)
       THEN \E out \in IconOutcomes(req.exe_path) :
              LET x == extract_exe_icon(files, env.HAS_ICOEXTRACT, req.exe_path,
                                        req.cache_path, out)
              IN /\ files' = x.files
                 /\ attempts' = Append(attempts, T_EXE)
                 /\ events' = events \cup Ev(T_EXE, FALSE, FALSE, x.ok)
                 /\ IF x.ok THEN ReturnCover("EXE Icon", T_EXE) ELSE ReturnNone
       ELSE /\ ReturnNone
            /\ UNCHANGED <<files, attempts, events>>
    /\ UNCHANGED <<clients, search_cache, now, fixed, tasks, inventory, req, clientHist, keyHist>>

(***************************************************************************)
(* The callers of get_cover                                                *)
(***************************************************************************)
\* a faulty scanner: get_cover is called without the cache pre-check
SteamScanItem_NoPreCheck(n, aid) ==
    /\ pc = "idle"
    /\ UNCHANGED <<clients, search_cache, files, now, fixed, tasks, inventory, clientHist, keyHist>>
    /\ Enter(n, aid, None, "steam")

\* SteamScanner.scan, one app manifest: the cache pre-check, else get_cover
SteamScanItem(n, aid) ==
    /\ pc = "idle"
    /\ UNCHANGED <<clients, search_cache, files, now, fixed, tasks, inventory, clientHist, keyHist>>
    /\ IF PreCheckValid(files, SteamScanPath(aid))
       THEN UNCHANGED call
       ELSE Enter(n, aid, None, "steam")

\* DiskScanner.scan, one game folder: the cache pre-check, else get_cover
DiskScanItem(name, game_exe) ==
    /\ pc = "idle"
    /\ UNCHANGED <<clients, search_cache, files, now, fixed, tasks, inventory, clientHist, keyHist>>
    /\ IF PreCheckValid(files, DiskScanPath(CleanName(name)))
       THEN UNCHANGED call
       ELSE Enter(name, None, game_exe, "disk")

\* the entries the scanners build: GameModel(title, exe_path, app_id)
SteamGame(n, aid) == [title |-> n, app_id |-> aid, exe_path |-> SteamUrl(aid)]

DiskGame(name, game_exe) == [title |-> name, app_id |-> None, exe_path |-> game_exe]

Games ==
    {SteamGame(n, aid) : n \in Titles, aid \in AppIds}
        \cup {DiskGame(name, e) : name \in Titles, e \in ExePaths}

\* CyberLauncher.refresh_cover: delete the entry's icon file, then get_cover
RefreshCover(game, icon_path) ==
    /\ pc = "idle"
    /\ files' = IF Truthy(icon_path) THEN [files EXCEPT ![icon_path] = NoFile] ELSE files
    /\ UNCHANGED <<clients, search_cache, now, fixed, tasks, inventory, clientHist, keyHist>>
    /\ Enter(game.title, game.app_id, game.exe_path, "refresh")

\* the code uses time.time() only in differences with _last_request_time and
\* compares them with _min_delay alone: the origin of the clock is moved so
\* that now is StartTime again, an older _last_request_time staying at 0
Rebase(c, t) ==
    [c EXCEPT !.last = IF @ < t - StartTime THEN 0 ELSE @ - (t - StartTime)]

\* get_cover has returned or raised: its activation is over
Leave ==
    /\ pc \in {"done", "raised"}
    /\ pc' = "idle"
    /\ req' = NoReq
    /\ loc' = NoLoc
    /\ result' = NoResult
    /\ attempts' = << >>
    /\ events' = {}
    /\ now' = StartTime
    /\ sgdb' = Rebase(sgdb, now)
    /\ rawg' = Rebase(rawg, now)
    /\ UNCHANGED <<search_cache, files, fixed, tasks, clientHist, keyHist>>

\* get_cover has returned or raised, the caller goes on
Return == Leave /\ UNCHANGED inventory

Next ==
    \/ \E n \in Titles, aid \in AppIds : SteamScanItem(n, aid)
    \/ \E name \in Titles, game_exe \in ExePaths : DiskScanItem(name, game_exe)
    \/ \E game \in Games, icon_path \in DOMAIN files \cup {None} :
            RefreshCover(game, icon_path)
    \/ SgdbById
    \/ SgdbByIdDownload
    \/ SteamCdn
    \/ SteamCdnDownload
    \/ Rawg
    \/ RawgDownload
    \/ StoreSearch
    \/ StoreSearchDownload
    \/ SgdbSearch
    \/ SgdbByGameId
    \/ SgdbByNameDownload
    \/ DuckDuckGo
    \/ ExeIcon
    \/ Return

Spec == Init /\ [][Next]_vars

(***************************************************************************)
(* The clients alone: sequential queries on the instances of one manager,  *)
(* with a clock that runs between the queries                              *)
(***************************************************************************)
MaxTime == 15

\* by how many ticks time.sleep may return late
MaxOvershoot == 1

\* names handed to the search methods
QueryNames == { <<"D", "m">>, <<"Q">> }

\* a manager built with one of the two keys: the two clients share no state
InitClients ==
    /\ keys \in {k \in [sgdb_key : ApiKeys \cup {None}, rawg_key : ApiKeys \cup {None}] :
                   Truthy(k.sgdb_key) # Truthy(k.rawg_key)}
    /\ norm = [t \in KeyTitles |-> _clean_name(t)]
    /\ sgdb = NewSgdb(keys.sgdb_key)
    /\ rawg = NewRawg(keys.rawg_key)
    /\ search_cache = << >>
    /\ files = [p \in AllPaths |-> NoFile]
    /\ now = StartTime
    /\ env = [HAS_DDG |-> TRUE, HAS_ICOEXTRACT |-> TRUE]
    /\ InitCall
    /\ InitHist
    /\ InitInventory

\* the dispatch history of a client after one more request leaves at time t
Dispatched(s, t) ==
    [n |-> s.n + 1, first |-> IF s.n = 0 THEN t ELSE s.first, prev |-> s.last,
     last |-> t]

\* the history of one query: name of the client, whether a request left, at
\* what time, whether the response was a 401, what came back
Record(name, dispatched, t, is401, empty, raised) ==
    /\ sent' = IF dispatched
               THEN [sent EXCEPT ![name] = Dispatched(@, t)]
               ELSE sent
    /\ got401' = IF dispatched /\ is401 THEN got401 \cup {name} ELSE got401
    /\ reply' = [client |-> name, sent |-> dispatched, empty |-> empty,
                 raised |-> raised, after401 |-> name \in got401]

\* the history of one query q of a client c0 that became c1 and returned
\* res: whether q was made before on the instance and returned a value,
\* whether it returned the same now, whether a request left, whether the
\* rate limiter slept or was stamped
Asked(q, res, dispatched, slept, c0, c1) ==
    queries' = [seen |-> (q :> res) @@ queries.seen,
                op |-> q[1],
                repeat |-> q \in DOMAIN queries.seen /\ queries.seen[q] # <<"raised">>,
                same |-> q \in DOMAIN queries.seen /\ queries.seen[q] = res,
                sent |-> dispatched,
                limiter |-> slept \/ c1.last # c0.last]

\* time passes between two queries
Tick ==
    /\ now < MaxTime
    /\ now' = now + 1
    /\ UNCHANGED <<clients, search_cache, files, fixed, tasks, inventory, call, clientHist, keyHist>>

\* self.sgdb.get_grids_by_steam_id(app_id)
QueryGridsBySteamId ==
    /\ sgdb # NoClient
    /\ \E steam_app_id \in AppIds, out \in ApiOutcomes(GridBodies),
          over \in 0..MaxOvershoot :
         LET r == get_grids_by_steam_id(sgdb, now, over, steam_app_id, out)
         IN /\ r.t <= MaxTime
            /\ sgdb' = r.c
            /\ now' = r.t
            /\ Record("sgdb", r.sent, r.t, out.kind = "401", r.urls = << >>, r.raised)
            /\ Asked(<<"get_grids_by_steam_id", steam_app_id>>,
                     IF r.raised THEN <<"raised">> ELSE r.urls, r.sent, r.slept, sgdb, r.c)
    /\ UNCHANGED <<rawg, search_cache, files, fixed, tasks, inventory, call, keyHist>>

\* self.sgdb.search_game(clean_name)
QuerySearchGame ==
    /\ sgdb # NoClient
    /\ \E game_name \in QueryNames, out \in ApiOutcomes(SearchBodies),
          over \in 0..MaxOvershoot :
         LET r == sgdb_search_game(sgdb, now, over, game_name, out)
         IN /\ r.t <= MaxTime
            /\ sgdb' = r.c
            /\ now' = r.t
            /\ Record("sgdb", r.sent, r.t, out.kind = "401", r.game_id = "", r.raised)
            /\ Asked(<<"search_game", game_name>>,
                     IF r.raised THEN <<"raised">> ELSE <<r.game_id>>, r.sent, r.slept,
                     sgdb, r.c)
    /\ UNCHANGED <<rawg, search_cache, files, fixed, tasks, inventory, call, keyHist>>

\* self.sgdb.get_grids_by_game_id(game_id)
QueryGridsByGameId ==
    /\ sgdb # NoClient
    /\ \E game_id \in GameIds, out \in ApiOutcomes(GridBodies),
          over \in 0..MaxOvershoot :
         LET r == get_grids_by_game_id(sgdb, now, over, game_id, out)
         IN /\ r.t <= MaxTime
            /\ sgdb' = r.c
            /\ now' = r.t
            /\ Record("sgdb", r.sent, r.t, out.kind = "401", r.urls = << >>, r.raised)
            /\ Asked(<<"get_grids_by_game_id", game_id>>,
                     IF r.raised THEN <<"raised">> ELSE r.urls, r.sent, r.slept, sgdb, r.c)
    /\ UNCHANGED <<rawg, search_cache, files, fixed, tasks, inventory, call, keyHist>>

\* self.rawg.search_game(clean_name)
QueryRawg ==
    /\ rawg # NoClient
    /\ \E game_name \in QueryNames, out \in RawgOutcomes, over \in 0..MaxOvershoot :
         LET r == rawg_search_game(rawg, now, over, game_name, out)
         IN /\ r.t <= MaxTime
            /\ rawg' = r.c
            /\ now' = r.t
            /\ Record("rawg", r.sent, r.t, out.kind = "401", r.image = "", FALSE)
            /\ Asked(<<"rawg.search_game", game_name>>, <<r.image>>, r.sent, r.slept,
                     rawg, r.c)
    /\ UNCHANGED <<sgdb, search_cache, files, fixed, tasks, inventory, call, keyHist>>

NextClients ==
    \/ Tick
    \/ QueryGridsBySteamId
    \/ QuerySearchGame
    \/ QueryGridsByGameId
    \/ QueryRawg

SpecClients == InitClients /\ [][NextClients]_vars

(***************************************************************************)
(* The cache key alone: the derivation of get_cover applied to pairs of    *)
(* requests                                                                *)
(***************************************************************************)
InitKey ==
    /\ keys = [sgdb_key |-> None, rawg_key |-> None]
    /\ norm = [t \in KeyTitles |-> _clean_name(t)]
    /\ sgdb = NewSgdb(keys.sgdb_key)
    /\ rawg = NewRawg(keys.rawg_key)
    /\ search_cache = << >>
    /\ files = [p \in AllPaths |-> NoFile]
    /\ now = StartTime
    /\ env = [HAS_DDG |-> TRUE, HAS_ICOEXTRACT |-> TRUE]
    /\ InitCall
    /\ InitHist
    /\ InitInventory

\* lines 576-578 of get_cover for one request
DeriveKey(game_title, app_id) ==
    /\ prev' = cur
    /\ cur' = [title |-> game_title, app_id |-> app_id,
               path |-> get_cover_path(game_title, app_id)]
    /\ UNCHANGED <<clients, search_cache, files, now, fixed, tasks, inventory, call, clientHist>>

NextKey == \E game_title \in KeyTitles, app_id \in KeyAppIds \cup {None} :
             DeriveKey(game_title, app_id)

SpecKey == InitKey /\ [][NextKey]_vars

(***************************************************************************)
(* Properties of get_cover                                                 *)
(***************************************************************************)
Tiers == T_SGDB_ID..T_EXE

Range(s) == {s[i] : i \in 1..Len(s)}

\* the condition under which get_cover enters a tier, read from the
\* arguments of the call and from the keys the manager was built with
PreHolds(t) ==
    CASE t = T_SGDB_ID -> Truthy(req.app_id) /\ Truthy(keys.sgdb_key)
      [] t = T_CDN -> Truthy(req.app_id)
      [] t = T_RAWG -> Truthy(keys.rawg_key)
      [] t = T_STORE -> TRUE
      [] t = T_SGDB_NAME -> Truthy(keys.sgdb_key)
      [] t = T_DDG -> TRUE
      [] t = T_EXE -> Truthy(req.exe_path)

\* a tier has succeeded when it has written the cover file
Succeeded(t) == <<t, "write">> \in events

\* the tag the return statement of each tier carries
TagOfTier(t) ==
    CASE t = T_SGDB_ID -> "SteamGridDB"
      [] t = T_CDN -> "Steam CDN"
      [] t = T_RAWG -> "RAWG.io"
      [] t = T_STORE -> "Steam Store"
      [] t = T_SGDB_NAME -> "SteamGridDB"
      [] t = T_DDG -> "DuckDuckGo"
      [] t = T_EXE -> "EXE Icon"

\* C1: within one get_cover call the tiers are attempted at most once and in
\* the order 1..7; a tier is attempted only after every higher-priority tier
\* whose precondition holds has been attempted and has failed; the tag
\* returned is that of the highest-priority tier that succeeded
C1_TierOrder ==
    /\ \A i, j \in 1..Len(attempts) : i < j => attempts[i] < attempts[j]
    /\ \A i \in 1..Len(attempts) : \A t \in Tiers :
         t < attempts[i] /\ PreHolds(t) => t \in Range(attempts) /\ ~Succeeded(t)
    /\ \A e \in events : e[1] \in Range(attempts)
    /\ \A t \in Tiers :
         Succeeded(t) =>
            /\ pc = "done"
            /\ result.source = TagOfTier(t)
            /\ \A u \in Tiers : Succeeded(u) => u >= t

\* every tier up to SteamGridDB-by-name was attempted, the fifth succeeded
C1_Witness ==
    /\ pc = "done"
    /\ attempts = <<T_SGDB_ID, T_CDN, T_RAWG, T_STORE, T_SGDB_NAME>>
    /\ Succeeded(T_SGDB_NAME)
    /\ result.source = "SteamGridDB"

\* C2: once a tier has succeeded no lower-priority tier makes a network
\* request, sleeps or writes; after a success of SteamGridDB-by-id nothing
\* of RAWG, store search, name search, DuckDuckGo or the EXE icon runs
C2_ShortCircuit ==
    /\ \A t \in Tiers : Succeeded(t) => \A e \in events : e[1] <= t
    /\ \A t \in Tiers : Succeeded(t) => \A i \in 1..Len(attempts) : attempts[i] <= t
    /\ Succeeded(T_SGDB_ID) => attempts = <<T_SGDB_ID>>

C2_Witness ==
    /\ pc = "done"
    /\ Succeeded(T_SGDB_ID)
    /\ Truthy(keys.rawg_key)
    /\ Truthy(req.exe_path) \/ env.HAS_DDG

\* C3: get_cover returns path None exactly when every tier whose
\* precondition held was attempted and failed, the tag "None" exactly with
\* the path None, and otherwise the path the first successful tier wrote,
\* with that tier's tag
C3_NoneIffAllFailed ==
    pc = "done" =>
        /\ result.path = None <=>
              /\ \A t \in Tiers : PreHolds(t) => t \in Range(attempts)
              /\ \A t \in Tiers : ~Succeeded(t)
        /\ result.source = "None" <=> result.path = None
        /\ result.path # None =>
              \E t \in Tiers :
                 /\ Succeeded(t)
                 /\ \A u \in Tiers : u < t => ~Succeeded(u)
                 /\ result.path = req.cache_path
                 /\ files[result.path] # NoFile
                 /\ result.source = TagOfTier(t)

\* all seven tiers attempted, none succeeded
C3_Witness ==
    /\ pc = "done"
    /\ result.path = None
    /\ attempts = <<T_SGDB_ID, T_CDN, T_RAWG, T_STORE, T_SGDB_NAME, T_DDG, T_EXE>>

\* C4: no failure propagates out of get_cover, it never raises
C4_Total == pc # "raised"

C6_CacheFirst ==
    req.had_valid => \A e \in events : e[2] \notin {"net", "write"}

\* C6: get_cover itself never looks at the cache, every call walks the chain
\* from its first tier; the check is made by the scanners, which call
\* get_cover only when the file of their own pre-check path is missing or
\* not larger than 2048 bytes, and for the Steam scanner that file is the
\* cache file of the request
C6_CallerChecks ==
    [][pc = "idle" /\ pc' # "idle" =>
          /\ pc' = "sgdb_id"
          /\ events' = {} /\ attempts' = << >>
          /\ req'.caller = "steam" =>
                /\ files[req'.cache_path] <= MinValidSize
                /\ ~req'.had_valid
          /\ req'.caller = "disk" =>
                files[JpgName(First12(Md5Hex(req'.clean_name)))] <= MinValidSize]_vars

\* a Steam scan has entered get_cover while the cache holds valid covers
C6_Witness ==
    /\ pc = "sgdb_id"
    /\ req.caller = "steam"
    /\ \E p \in DOMAIN files : files[p] > MinValidSize

\* C8: a tier whose precondition fails is skipped without a request, a
\* delay or a write, and a missing or empty key leaves no client and no
\* error
C8_Preconditions ==
    /\ \A i \in 1..Len(attempts) : PreHolds(attempts[i])
    /\ \A e \in events : PreHolds(e[1]) /\ (e[1] = T_DDG => env.HAS_DDG)
    /\ ~Truthy(keys.sgdb_key) => sgdb = NoClient /\ pc # "raised"
    /\ ~Truthy(keys.rawg_key) => rawg = NoClient

\* no key and no stable identifier: only the store search, DuckDuckGo and
\* the EXE icon were attempted
C8_Witness ==
    /\ pc = "done"
    /\ ~Truthy(keys.sgdb_key) /\ ~Truthy(keys.rawg_key) /\ ~Truthy(req.app_id)
    /\ attempts = <<T_STORE, T_DDG, T_EXE>>

(***************************************************************************)
(* Properties of the cache key                                             *)
(***************************************************************************)
\* C7: the cache path depends on the stable identifier alone when one is
\* given, whatever the title, and otherwise on the normalized title alone:
\* two requests with the same identifier, or two requests without one whose
\* titles normalize to the same string, get the same path
C7_KeyDeterminism ==
    prev # NoKey =>
        /\ Truthy(cur.app_id) /\ cur.app_id = prev.app_id => cur.path = prev.path
        /\ (/\ ~Truthy(cur.app_id)
            /\ ~Truthy(prev.app_id)
            /\ _clean_name(cur.title) = _clean_name(prev.title)) => cur.path = prev.path

\* two different titles without identifier that normalize to the same
\* non-empty name
C7_Witness ==
    /\ prev # NoKey
    /\ prev.title # cur.title
    /\ ~Truthy(cur.app_id) /\ ~Truthy(prev.app_id)
    /\ _clean_name(cur.title) = _clean_name(prev.title)
    /\ _clean_name(cur.title) # << >>
    /\ cur.path = prev.path

(***************************************************************************)
(* Properties of the clients                                               *)
(***************************************************************************)
\* _min_delay of the two client classes
MinDelayOf(name) == IF name = "sgdb" THEN SGDB_MIN_DELAY ELSE RAWG_MIN_DELAY

\* C9: two requests of one client instance are never dispatched less than
\* its minimum delay apart (0.25 s SteamGridDB, 0.1 s RAWG), so n requests
\* take at least (n - 1) times the minimum delay
C9_RateLimit ==
    \A name \in {"sgdb", "rawg"} :
        sent[name].n >= 2 =>
            /\ sent[name].last - sent[name].prev >= MinDelayOf(name)
            /\ sent[name].last - sent[name].first >= (sent[name].n - 1) * MinDelayOf(name)

\* three requests of one client, the last one exactly one delay after the
\* one before
C9_Witness ==
    \E name \in {"sgdb", "rawg"} :
        /\ sent[name].n >= 3
        /\ sent[name].last - sent[name].prev = MinDelayOf(name)

\* C10: after one HTTP 401 every later query on the instance, whatever its
\* parameters, sends no request and returns no result
C10_DisabledAfter401 ==
    reply.after401 => ~reply.sent /\ reply.empty /\ ~reply.raised

\* C11: a query that returned a value and is repeated with the same
\* parameters on the same instance returns that value again, sends no
\* request, and neither waits on nor stamps the rate limiter
C11_Memoized ==
    queries.repeat => ~queries.sent /\ queries.same /\ ~queries.limiter

(***************************************************************************)
(* CoverValidator, on arbitrary cache directories and inventories          *)
(***************************************************************************)
\* the threshold of validate_cache_file
VALIDATOR_MIN_SIZE == 2048

\* files of a cache directory: a path is its file name, whose last element
\* is the extension; every icon_path of the model lies in that directory
ValPaths == { <<"a", ".jpg">>, <<"b", ".png">>, <<"c", ".tmp">> }

\* a reference to a file that does not exist
GonePath == <<"gone", ".jpg">>

ValSizes == {NoFile, 0, 1000, 2048, 5000}

Uids == {"u1", "u2"}

\* GameModel entries: the fields the cover code reads or writes and one
\* that it does not
Inventories(paths) ==
    UNION {[U -> [uid : Uids, title : {<<"D", "m">>}, icon_path : paths,
                  is_favorite : {TRUE}]] : U \in SUBSET Uids}

\* dictionaries keyed by the uid of their entry
KeyedInventories(paths) ==
    {gs \in Inventories(paths) : \A u \in DOMAIN gs : gs[u].uid = u}

\* path.exists()
Exists(fs, path) == path \in DOMAIN fs /\ fs[path] # NoFile

\* CoverValidator.validate_cache_file
validate_cache_file(fs, file_path) ==
    IF ~Truthy(file_path) THEN FALSE
    ELSE IF ~Exists(fs, file_path) THEN FALSE
    ELSE IF fs[file_path] < VALIDATOR_MIN_SIZE THEN FALSE
    ELSE TRUE

\* a faulty repair: every set reference is counted, cleared or not
repair_library_references_CountsAll(fs, gs) ==
    [games |-> [u \in DOMAIN gs |->
                  IF Truthy(gs[u].icon_path) /\ ~validate_cache_file(fs, gs[u].icon_path)
                  THEN [gs[u] EXCEPT !.icon_path = None]
                  ELSE gs[u]],
     repaired |-> Cardinality({u \in DOMAIN gs : Truthy(gs[u].icon_path)})]

\* CoverValidator.repair_library_references: the entries are changed in
\* place, the number of cleared references is returned
repair_library_references(fs, gs) ==
    LET bad == {u \in DOMAIN gs :
                  Truthy(gs[u].icon_path) /\ ~validate_cache_file(fs, gs[u].icon_path)}
    IN [games |-> [u \in DOMAIN gs |->
                     IF u \in bad THEN [gs[u] EXCEPT !.icon_path = None] ELSE gs[u]],
        repaired |-> Cardinality(bad)]

\* the last element of a file name
Ext(path) == path[Len(path)]

\* a faulty sweep: the referenced set is taken from the entries in memory
cleanup_orphaned_cache_FromMemory(fs, lib, gs) ==
    LET referenced == {gs[u].icon_path : u \in {v \in DOMAIN gs : Truthy(gs[v].icon_path)}}
        scanned == {p \in DOMAIN fs : fs[p] # NoFile /\ Ext(p) \in {".jpg", ".png"}}
        orphans == scanned \ referenced
    IN [files |-> [p \in DOMAIN fs |-> IF p \in orphans THEN NoFile ELSE fs[p]],
        removed |-> Cardinality(orphans), total |-> Cardinality(scanned)]

\* CoverValidator.cleanup_orphaned_cache: gs, the entries in memory, is not
\* read; unlink is taken to succeed
cleanup_orphaned_cache(fs, lib, gs) ==
    IF lib.state # "ok"
    THEN [files |-> fs, removed |-> 0, total |-> 0]
    ELSE LET referenced ==
                 {lib.games[u].icon_path :
                      u \in {v \in DOMAIN lib.games : Truthy(lib.games[v].icon_path)}}
             scanned == {p \in DOMAIN fs : fs[p] # NoFile /\ Ext(p) \in {".jpg", ".png"}}
             orphans == scanned \ referenced
         IN [files |-> [p \in DOMAIN fs |-> IF p \in orphans THEN NoFile ELSE fs[p]],
             removed |-> Cardinality(orphans), total |-> Cardinality(scanned)]

\* a cache directory, entries in memory and an inventory file of any kind
InitValidator ==
    /\ keys = [sgdb_key |-> None, rawg_key |-> None]
    /\ norm = [t \in KeyTitles |-> _clean_name(t)]
    /\ sgdb = NewSgdb(keys.sgdb_key)
    /\ rawg = NewRawg(keys.rawg_key)
    /\ search_cache = << >>
    /\ files \in {fs \in [ValPaths -> ValSizes] : fs[<<"c", ".tmp">>] \in {NoFile, 5000}}
    /\ now = StartTime
    /\ env = [HAS_DDG |-> TRUE, HAS_ICOEXTRACT |-> TRUE]
    /\ InitCall
    /\ InitHist
    /\ games \in KeyedInventories({None, <<"a", ".jpg">>, GonePath})
    /\ library \in {LibMissing, LibUnreadable}
                     \cup {LibFile(gs) : gs \in KeyedInventories({None, <<"b", ".png">>})}
    /\ vlog = NoVlog

\* self.cover_validator.validate_cache_file(file_path)
ValidateCacheFile ==
    /\ \E file_path \in ValPaths \cup {None, GonePath} :
         vlog' = [op |-> "validate", path |-> file_path, fs |-> files,
                  valid |-> validate_cache_file(files, file_path)]
    /\ UNCHANGED <<clients, search_cache, files, now, fixed, tasks, call, clientHist,
                   keyHist, games, library>>

\* self.cover_validator.repair_library_references(games_list)
RepairLibraryReferences ==
    /\ LET r == repair_library_references(files, games)
       IN /\ games' = r.games
          /\ vlog' = [op |-> "repair", fs |-> files, before |-> games,
                      after |-> r.games, repaired |-> r.repaired]
    /\ UNCHANGED <<clients, search_cache, files, now, fixed, tasks, call, clientHist,
                   keyHist, library>>

\* self.cover_validator.cleanup_orphaned_cache()
CleanupOrphanedCache ==
    /\ LET c == cleanup_orphaned_cache(files, library, games)
       IN /\ files' = c.files
          /\ vlog' = [op |-> "cleanup", fs |-> files, lib |-> library, mem |-> games,
                      after |-> c.files, removed |-> c.removed, total |-> c.total]
    /\ UNCHANGED <<clients, search_cache, now, fixed, tasks, call, clientHist, keyHist,
                   games, library>>

NextValidator ==
    \/ ValidateCacheFile
    \/ RepairLibraryReferences
    \/ CleanupOrphanedCache

SpecValidator == InitValidator /\ [][NextValidator]_vars

(***************************************************************************)
(* Cache integrity                                                         *)
(***************************************************************************)
\* C12: validate_cache_file answers true exactly for a non-empty path whose
\* file exists and is strictly larger than 2048 bytes
C12_StrictlyLarger ==
    vlog.op = "validate" =>
        (vlog.valid <=> /\ Truthy(vlog.path)
                        /\ Exists(vlog.fs, vlog.path)
                        /\ vlog.fs[vlog.path] > 2048)

\* entries of gs whose reference is set and refused by the validator
Invalidated(fs, gs) ==
    {u \in DOMAIN gs : Truthy(gs[u].icon_path) /\ ~validate_cache_file(fs, gs[u].icon_path)}

\* C13: repair_library_references sets icon_path to None exactly on the
\* entries whose reference is set and fails validate_cache_file, leaves every
\* other entry and every other field as it was, and returns the number of
\* references it cleared
C13_RepairExact ==
    vlog.op = "repair" =>
        /\ DOMAIN vlog.after = DOMAIN vlog.before
        /\ \A u \in DOMAIN vlog.before :
             IF u \in Invalidated(vlog.fs, vlog.before)
             THEN vlog.after[u] = [vlog.before[u] EXCEPT !.icon_path = None]
             ELSE vlog.after[u] = vlog.before[u]
        /\ vlog.repaired = Cardinality(Invalidated(vlog.fs, vlog.before))

\* one reference is cleared and a valid one is kept
C13_Witness ==
    /\ vlog.op = "repair"
    /\ vlog.repaired = 1
    /\ \E u \in DOMAIN vlog.after :
         Truthy(vlog.after[u].icon_path) /\ vlog.after[u] = vlog.before[u]

\* file names referenced by the entries of an inventory
Referenced(gs) == {gs[u].icon_path : u \in {v \in DOMAIN gs : Truthy(gs[v].icon_path)}}

\* the .jpg and .png files present in a cache directory
Images(fs) == {p \in DOMAIN fs : fs[p] # NoFile /\ Ext(p) \in {".jpg", ".png"}}

generate_uid(path) == First12(Md5Hex(LowerStr(path)))

\* CoverUploader.upload_from_file: md5(game_uid)[:12] + ".jpg"
UploadPath(game_uid) == JpgName(First12(Md5Hex(game_uid)))

\* the installed game of the library runs: one Steam app manifest
LibTitle == <<"D", "m">>

LibAppId == <<"7">>

LibUid == generate_uid(<<"steam_">> \o LibAppId)

\* a cache file that no entry has ever referenced
StrayPath == <<"stray", ".png">>

LibPaths == {SteamScanPath(LibAppId), UploadPath(LibUid), StrayPath}

\* the GameModel SteamScanner.scan builds
ScannedGame(n, aid, icon) ==
    [uid |-> generate_uid(<<"steam_">> \o aid), title |-> n,
     exe_path |-> SteamUrl(aid), icon_path |-> icon, app_id |-> aid,
     is_favorite |-> FALSE]

\* inventory files an earlier run of the launcher may have left
SavedLibraries ==
    {LibMissing, LibUnreadable, LibFile(<< >>)}
        \cup {LibFile(LibUid :> [ScannedGame(LibTitle, LibAppId, icon)
                                    EXCEPT !.is_favorite = TRUE]) :
                 icon \in {None, SteamScanPath(LibAppId), UploadPath(LibUid)}}

\* sizes of the JPEG that upload_from_file writes
JpegSizes == {1000, 5000}

\* GameManager.save_library
save_library(gs) == LibFile(gs)

\* the launcher starts on the cache directory and inventory file of an
\* earlier run, with the keys of the settings file
InitLibrary ==
    /\ keys = [sgdb_key |-> <<"k">>, rawg_key |-> <<"k">>]
    /\ norm = [t \in KeyTitles |-> _clean_name(t)]
    /\ sgdb = NewSgdb(keys.sgdb_key)
    /\ rawg = NewRawg(keys.rawg_key)
    /\ search_cache = << >>
    /\ files \in {fs \in [LibPaths -> {NoFile, 2048, 5000}] :
                     /\ fs[StrayPath] # 2048
                     /\ fs[UploadPath(LibUid)] # 2048}
    /\ now = StartTime
    /\ env = [HAS_DDG |-> TRUE, HAS_ICOEXTRACT |-> TRUE]
    /\ InitCall
    /\ InitHist
    /\ games = << >>
    /\ library \in SavedLibraries
    /\ vlog = NoVlog

\* a faulty load: the orphan sweep runs on the inventory file as it was
\* read, the repaired entries are written afterwards
LoadLibrary_SweepFirst ==
    /\ pc = "idle"
    /\ games = << >>
    /\ vlog.op = "none"
    /\ IF library.state # "ok"
       THEN /\ vlog' = [op |-> "load", read |-> FALSE]
            /\ UNCHANGED <<games, library, files>>
       ELSE LET loaded == library.games @@ games
                r == repair_library_references(files, loaded)
                c == cleanup_orphaned_cache(files, library, r.games)
            IN /\ games' = r.games
               /\ library' = IF r.repaired > 0 THEN save_library(r.games) ELSE library
               /\ files' = c.files
               /\ vlog' = [op |-> "load", read |-> TRUE, fs |-> files,
                           repaired |-> r.repaired, games |-> r.games,
                           swept |-> library, after |-> c.files,
                           removed |-> c.removed]
    /\ UNCHANGED <<clients, search_cache, now, fixed, tasks, call, clientHist, keyHist>>

\* GameManager.load_library, called once when the launcher starts: read the
\* inventory file, repair, save if anything was repaired, sweep
LoadLibrary ==
    /\ pc = "idle"
    /\ games = << >>
    /\ vlog.op = "none"
    /\ IF library.state # "ok"
       THEN /\ vlog' = [op |-> "load", read |-> FALSE]
            /\ UNCHANGED <<games, library, files>>
       ELSE LET loaded == library.games @@ games
                r == repair_library_references(files, loaded)
                saved == IF r.repaired > 0 THEN save_library(r.games) ELSE library
                c == cleanup_orphaned_cache(files, saved, r.games)
            IN /\ games' = r.games
               /\ library' = saved
               /\ files' = c.files
               /\ vlog' = [op |-> "load", read |-> TRUE, fs |-> files,
                           repaired |-> r.repaired, games |-> r.games,
                           swept |-> saved, after |-> c.files,
                           removed |-> c.removed]
    /\ UNCHANGED <<clients, search_cache, now, fixed, tasks, call, clientHist, keyHist>>

\* scan_all_games, the merge of a scanned entry into _games
Merge(gs, fs, game) ==
    IF game.uid \in DOMAIN gs
    THEN LET old == gs[game.uid]
             kept == [game EXCEPT !.is_favorite = old.is_favorite]
         IN (game.uid :> IF Truthy(old.icon_path) /\ validate_cache_file(fs, old.icon_path)
                         THEN [kept EXCEPT !.icon_path = old.icon_path]
                         ELSE kept) @@ gs
    ELSE (game.uid :> game) @@ gs

\* GameManager.scan_all_games on the one manifest: the entry is built from
\* the cache when the pre-check passes, else get_cover is called
ScanAllGames ==
    /\ pc = "idle"
    /\ vlog.op # "none"
    /\ UNCHANGED <<clients, search_cache, files, now, fixed, tasks, clientHist, keyHist>>
    /\ vlog' = [op |-> "scan"]
    /\ IF PreCheckValid(files, SteamScanPath(LibAppId))
       THEN /\ games' = Merge(games, files,
                              ScannedGame(LibTitle, LibAppId, SteamScanPath(LibAppId)))
            /\ library' = save_library(games')
            /\ UNCHANGED call
       ELSE /\ Enter(LibTitle, LibAppId, None, "steam")
            /\ UNCHANGED <<games, library>>

\* get_cover comes back to the scan: the entry is built with the path it
\* returned and merged; an exception drops the manifest; the library is saved
ReturnToScan ==
    /\ req.caller = "steam"
    /\ Leave
    /\ games' = IF pc = "done"
                THEN Merge(games, files, ScannedGame(req.title, req.app_id, result.path))
                ELSE games
    /\ library' = save_library(games')
    /\ UNCHANGED vlog

\* the uid of the entry a scanner builds: generate_uid(f"steam_{aid}") for a
\* Steam game, generate_uid(str(game_exe)) for a game of a folder
UidOf(app_id, exe_path) ==
    IF Truthy(app_id) THEN generate_uid(<<"steam_">> \o app_id) ELSE generate_uid(exe_path)

\* CyberLauncher.refresh_cover of the entry uid: delete the entry's icon
\* file, then get_cover; log is what the history keeps of the refresh
RefreshCoverOf(uid, log) ==
    /\ pc = "idle"
    /\ LET game == games[uid]
       IN /\ files' = IF Truthy(game.icon_path)
                      THEN [files EXCEPT ![game.icon_path] = NoFile]
                      ELSE files
          /\ Enter(game.title, game.app_id, game.exe_path, "refresh")
    /\ vlog' = log
    /\ UNCHANGED <<clients, search_cache, now, fixed, tasks, games, library, clientHist, keyHist>>

\* refresh_cover of an entry of the library
RefreshEntry == \E uid \in DOMAIN games : RefreshCoverOf(uid, [op |-> "refresh"])

\* get_cover comes back to refresh_cover: a new path is set on the entry and
\* the library is saved
ReturnToRefresh ==
    /\ req.caller = "refresh"
    /\ Leave
    /\ LET uid == UidOf(req.app_id, req.exe_path)
       IN IF pc = "done" /\ Truthy(result.path)
          THEN /\ games' = (uid :> [games[uid] EXCEPT !.icon_path = result.path]) @@ games
               /\ library' = save_library(games')
          ELSE UNCHANGED <<games, library>>
    /\ UNCHANGED vlog

\* a faulty upload: the cover the entry had is deleted when the new one is
\* written
UploadCoverFromFile_DropsOld ==
    /\ pc = "idle"
    /\ \E uid \in DOMAIN games, size \in JpegSizes :
         /\ files' = [p \in DOMAIN files |->
                         IF p = UploadPath(uid) THEN size
                         ELSE IF p = games[uid].icon_path THEN NoFile
                         ELSE files[p]]
         /\ games' = (uid :> [games[uid] EXCEPT !.icon_path = UploadPath(uid)]) @@ games
         /\ library' = save_library(games')
    /\ vlog' = [op |-> "upload"]
    /\ UNCHANGED <<clients, search_cache, now, fixed, tasks, call, clientHist, keyHist>>

\* CyberLauncher.upload_cover_from_file: upload_from_file writes the JPEG or
\* returns None; on a path the entry is updated and the library saved
UploadCoverFromFile ==
    /\ pc = "idle"
    /\ \E uid \in DOMAIN games, out \in {[ok |-> FALSE, size |-> 0]}
                                          \cup [ok : {TRUE}, size : JpegSizes] :
         IF out.ok
         THEN /\ files' = [files EXCEPT ![UploadPath(uid)] = out.size]
              /\ games' = (uid :> [games[uid] EXCEPT !.icon_path = UploadPath(uid)]) @@ games
              /\ library' = save_library(games')
         ELSE UNCHANGED <<files, games, library>>
    /\ vlog' = [op |-> "upload"]
    /\ UNCHANGED <<clients, search_cache, now, fixed, tasks, call, clientHist, keyHist>>

\* what may happen to an upload from a URL: the scheme of the URL, the
\* response, whether the bytes go into the temporary file, and the size of
\* the JPEG upload_from_file writes (0: it returns None)
UrlOutcomes ==
    [http : BOOLEAN, resp : {"error", "404", "200"}, stored : BOOLEAN,
     jpeg : JpegSizes \cup {0}]

\* CoverUploader.upload_from_url: tmp tells whether the temporary file was
\* never created, was removed, or is left behind; NamedTemporaryFile is
\* opened with delete=False, so a write that raises leaves the file to the
\* outer except, which removes nothing
upload_from_url(fs, game_uid, out) ==
    IF ~out.http
    THEN [files |-> fs, path |-> None, requested |-> FALSE, tmp |-> "none"]
    ELSE IF out.resp # "200"
    THEN [files |-> fs, path |-> None, requested |-> TRUE, tmp |-> "none"]
    ELSE IF ~out.stored
    THEN [files |-> fs, path |-> None, requested |-> TRUE, tmp |-> "left"]
    ELSE IF out.jpeg = 0
    THEN [files |-> fs, path |-> None, requested |-> TRUE, tmp |-> "removed"]
    ELSE [files |-> [fs EXCEPT ![UploadPath(game_uid)] = out.jpeg],
          path |-> UploadPath(game_uid), requested |-> TRUE, tmp |-> "removed"]

\* CyberLauncher.upload_cover_from_url: on a path the entry is updated and
\* the library saved
UploadCoverFromUrl ==
    /\ pc = "idle"
    /\ \E uid \in DOMAIN games, out \in UrlOutcomes :
         LET r == upload_from_url(files, uid, out)
         IN /\ files' = r.files
            /\ IF Truthy(r.path)
               THEN /\ games' = (uid :> [games[uid] EXCEPT !.icon_path = r.path]) @@ games
                    /\ library' = save_library(games')
               ELSE UNCHANGED <<games, library>>
            /\ vlog' = [op |-> "upload_from_url", http |-> out.http,
                        stored |-> out.stored, requested |-> r.requested,
                        tmp |-> r.tmp, ok |-> Truthy(r.path)]
    /\ UNCHANGED <<clients, search_cache, now, fixed, tasks, call, clientHist, keyHist>>

NextLibrary ==
    \/ LoadLibrary
    \/ ScanAllGames
    \/ ReturnToScan
    \/ RefreshEntry
    \/ ReturnToRefresh
    \/ UploadCoverFromFile
    \/ UploadCoverFromUrl
    \/ SgdbById
    \/ SgdbByIdDownload
    \/ SteamCdn
    \/ SteamCdnDownload
    \/ Rawg
    \/ RawgDownload
    \/ StoreSearch
    \/ StoreSearchDownload
    \/ SgdbSearch
    \/ SgdbByGameId
    \/ SgdbByNameDownload
    \/ DuckDuckGo
    \/ ExeIcon

SpecLibrary == InitLibrary /\ [][NextLibrary]_vars

C16_DeletedOnlyBySweepOrRefresh ==
    [][\A p \in DOMAIN files :
          files[p] # NoFile /\ files'[p] = NoFile =>
              \/ vlog.op = "none" /\ vlog'.op = "load" /\ p \notin Referenced(library'.games)
              \/ /\ pc = "idle" /\ req'.caller = "refresh"
                 /\ p \in Referenced(games)]_vars

\* a refresh has deleted the entry's cover, get_cover has fetched it again,
\* and a manual upload lies untouched beside it
C16_Witness ==
    /\ pc = "done"
    /\ req.caller = "refresh"
    /\ Truthy(result.path)
    /\ files[result.path] > MinValidSize
    /\ files[UploadPath(LibUid)] = 1000

(***************************************************************************)
(* IconExtractor alone: _clean_name and _search_steam_id_by_name on one    *)
(* instance                                                                *)
(***************************************************************************)
\* folder and manifest names: release tags, a bracket inside a tag, a
\* dotted version
NameInputs ==
    KeyTitles \cup
    { <<"C", "O", "[", "x", "]", "D", "E", "X">>,
      <<"G", "a", "m", "e", ".", "N", "a", "m", "e", ".", "v", "1", ".", "2", ".",
        "C", "O", "D", "E", "X">> }

\* IconExtractor.__init__: an empty _search_cache; the table of _clean_name
\* holds the inputs and what they normalise to
InitExtractor ==
    /\ keys = [sgdb_key |-> None, rawg_key |-> None]
    /\ norm = [t \in NameInputs \cup {_clean_name(x) : x \in NameInputs} |-> _clean_name(t)]
    /\ sgdb = NewSgdb(keys.sgdb_key)
    /\ rawg = NewRawg(keys.rawg_key)
    /\ search_cache = << >>
    /\ files = [p \in AllPaths |-> NoFile]
    /\ now = StartTime
    /\ env = [HAS_DDG |-> TRUE, HAS_ICOEXTRACT |-> TRUE]
    /\ InitCall
    /\ InitHist
    /\ InitInventory

\* self._clean_name(name), and _clean_name of what it returned
Normalize(name) ==
    /\ vlog' = [op |-> "clean", name |-> name, once |-> CleanName(name),
                twice |-> CleanName(CleanName(name))]
    /\ UNCHANGED <<clients, search_cache, files, now, fixed, tasks, games, library, call,
                   clientHist, keyHist>>

\* self._search_steam_id_by_name(name); the history keeps the first outcome
\* of every normalised title that was looked up, and whether this call
\* sent a request and slept; the clock is moved back as in Rebase
SearchSteamIdByName(name) ==
    /\ \E out \in StoreOutcomes :
         LET r == search_steam_id_by_name(search_cache, now, name, out)
             q == CleanName(name)
         IN /\ search_cache' = r.cache
            /\ queries' = [seen |-> IF q \in DOMAIN queries.seen \/ Len(q) < 2
                                    THEN queries.seen
                                    ELSE (q :> r.id) @@ queries.seen,
                           op |-> "_search_steam_id_by_name",
                           name |-> q,
                           repeat |-> q \in DOMAIN queries.seen,
                           same |-> q \in DOMAIN queries.seen /\ queries.seen[q] = r.id,
                           sent |-> r.sent,
                           limiter |-> r.slept,
                           found |-> Truthy(r.id)]
    /\ UNCHANGED <<clients, files, now, fixed, tasks, inventory, call, sent, got401, reply,
                   keyHist>>

NextExtractor ==
    \/ \E name \in NameInputs : Normalize(name)
    \/ \E name \in NameInputs : SearchSteamIdByName(name)

SpecExtractor == InitExtractor /\ [][NextExtractor]_vars

\* C17: _clean_name is idempotent: normalising a normalised name changes
\* nothing
C17_Idempotent ==
    vlog.op = "clean" => vlog.twice = vlog.once

\* C18: _clean_name("Game.Name.v1.2.CODEX") is "Game Name"
C18_VersionRemoved ==
    (vlog.op = "clean" /\ vlog.name = <<"G", "a", "m", "e", ".", "N", "a", "m", "e", ".",
                                        "v", "1", ".", "2", ".", "C", "O", "D", "E", "X">>)
        => vlog.once = <<"G", "a", "m", "e", " ", "N", "a", "m", "e">>

\* C20: on one IconExtractor a request is sent only by the first lookup of a
\* normalised title: every later lookup of a title that normalises to the
\* same string sends nothing and returns the first outcome, found or not
C20_StoreSearchMemoized ==
    queries.op = "_search_steam_id_by_name" =>
        /\ queries.sent => ~queries.repeat
        /\ queries.repeat => queries.same

\* a title that was not found is looked up again under another spelling
C20_Witness ==
    /\ queries.op = "_search_steam_id_by_name"
    /\ queries.repeat
    /\ ~queries.found
    /\ ~queries.sent
    /\ queries.name = <<"D", "m">>

\* the requests _download_steam_cover has made for a tier in this call
Walk(t) == {e \in events : e[1] = t /\ e[2] = "url"}

C21_PauseAfterEveryRequest ==
    (queries.op = "_search_steam_id_by_name" /\ queries.sent) => queries.limiter

\* C22: when upload_from_url returns, the temporary file it created is
\* gone, whether upload_from_file succeeded, failed, or the write into the
\* temporary file raised; a URL that is not http or https is refused with no
\* request sent and no temporary file created
C22_TempRemoved ==
    vlog.op = "upload_from_url" =>
        /\ vlog.tmp # "left"
        /\ ~vlog.http => ~vlog.requested /\ vlog.tmp = "none" /\ ~vlog.ok

(***************************************************************************)
(* The tasks of the launcher: coroutines on the event loop of the page     *)
(* and handler threads                                                     *)
(***************************************************************************)
\* page.run_task and the async handlers put a coroutine on the one event
\* loop of the page; save_api_key is a plain method, run on a handler thread
Coroutines ==
    {"load_library", "refresh_library", "refresh_cover", "on_api_search_click",
     "upload_cover_from_file", "upload_cover_from_url"}

Threads == {"save_api_key"}

\* the coroutines that scan, and those that refresh one cover
Scanning == {"load_library", "refresh_library"}

Refreshing == {"refresh_cover", "on_api_search_click"}

\* how many games of a scan fail the cache pre-check and go to get_cover
MaxScan == 2

At(pos, left) == [pos |-> pos, left |-> left]

\* tasks.loop is the coroutine the thread of the event loop is running;
\* a coroutine runs on from one suspension to the next only while it is
\* that one, whatever other coroutines are ready
OnLoop(t) == tasks.loop = t

\* a coroutine that is ready or woken is taken up only when the thread of
\* the loop runs no other coroutine
LoopFree_Always == TRUE

LoopFree == tasks.loop = "free"

InitTasks ==
    /\ keys = [sgdb_key |-> None, rawg_key |-> None]
    /\ norm = [t \in KeyTitles |-> _clean_name(t)]
    /\ sgdb = NewSgdb(keys.sgdb_key)
    /\ rawg = NewRawg(keys.rawg_key)
    /\ search_cache = << >>
    /\ files = [p \in AllPaths |-> NoFile]
    /\ now = StartTime
    /\ env = [HAS_DDG |-> TRUE, HAS_ICOEXTRACT |-> TRUE]
    /\ InitCall
    /\ InitInventory
    /\ sent = [sgdb |-> NoSent, rawg |-> NoSent]
    /\ got401 = {}
    /\ reply = NoReply
    /\ queries = NoQueries
    /\ prev = NoKey
    /\ cur = NoKey
    /\ tasks = [at |-> [t \in Coroutines \cup Threads |-> At("idle", 0)], loop |-> "free"]

\* the variables the tasks are not modelled to change
TaskFrame ==
    UNCHANGED <<clients, search_cache, files, now, fixed, inventory, call, clientHist,
                keyHist>>

Move(t, pos, left, loop) ==
    /\ tasks' = [at |-> [tasks.at EXCEPT ![t] = At(pos, left)], loop |-> loop]
    /\ TaskFrame

\* a click or the start of the page: run_task(handler), or the handler is
\* called on its thread
Start(t) ==
    /\ tasks.at[t].pos = "idle"
    /\ Move(t, IF t \in Threads THEN "thread" ELSE "ready", 0, tasks.loop)

\* the event loop is free and takes up a coroutine that is ready: it runs
\* to its first suspension; a scan finds up to MaxScan games to resolve
Run(t) ==
    /\ LoopFree
    /\ tasks.at[t].pos = "ready"
    /\ IF t = "load_library"
       THEN \E n \in 0..MaxScan : Move(t, "scan", n, t)
       ELSE Move(t, "run", 0, t)

\* refresh_library: await asyncio.sleep(0.1) gives the loop away
Sleep(t) ==
    /\ t = "refresh_library"
    /\ OnLoop(t)
    /\ tasks.at[t].pos = "run"
    /\ Move(t, "sleep", 0, "free")

\* the sleep is over and the loop is free: scan_all_games begins
Wake(t) ==
    /\ LoopFree
    /\ tasks.at[t].pos = "sleep"
    /\ \E n \in 0..MaxScan : Move(t, "scan", n, t)

\* the coroutine calls get_cover, a plain function without await
EnterGetCover(t) ==
    /\ OnLoop(t)
    /\ \/ t \in Scanning /\ tasks.at[t].pos = "scan" /\ tasks.at[t].left > 0
       \/ t \in Refreshing /\ tasks.at[t].pos = "run"
    /\ Move(t, "get_cover", tasks.at[t].left, tasks.loop)

\* get_cover returns to the scanner or to refresh_cover
LeaveGetCover(t) ==
    /\ OnLoop(t)
    /\ tasks.at[t].pos = "get_cover"
    /\ IF t \in Scanning
       THEN Move(t, "scan", tasks.at[t].left - 1, tasks.loop)
       ELSE Move(t, "save", 0, tasks.loop)

\* the coroutine ends: save_library has no suspension of its own
Finish(t) ==
    /\ OnLoop(t)
    /\ \/ t \in Scanning /\ tasks.at[t].pos = "scan" /\ tasks.at[t].left = 0
       \/ t \in Refreshing /\ tasks.at[t].pos = "save"
       \/ t \notin Scanning \cup Refreshing /\ tasks.at[t].pos = "run"
    /\ Move(t, "idle", 0, "free")

\* save_api_key on its thread: reinitialize_api_clients, at any moment
ReinitializeOnThread(t) ==
    /\ tasks.at[t].pos = "thread"
    /\ Move(t, "idle", 0, tasks.loop)

NextTasks ==
    \/ \E t \in Coroutines \cup Threads : Start(t)
    \/ \E t \in Coroutines : Run(t)
    \/ \E t \in Coroutines : Sleep(t)
    \/ \E t \in Coroutines : Wake(t)
    \/ \E t \in Coroutines : EnterGetCover(t)
    \/ \E t \in Coroutines : LeaveGetCover(t)
    \/ \E t \in Coroutines : Finish(t)
    \/ \E t \in Threads : ReinitializeOnThread(t)

SpecTasks == InitTasks /\ [][NextTasks]_vars

\* the tasks that are inside get_cover
Resolving == {t \in DOMAIN tasks.at : tasks.at[t].pos = "get_cover"}

\* C23: under every interleaving of the initial load, a library refresh,
\* cover refreshes, manual uploads and a change of the API keys, at most
\* one get_cover is in progress
C23_OneResolution ==
    Cardinality(Resolving) <= 1

\* a scan is inside get_cover while a cover refresh is ready and waits for
\* the loop
C23_Witness ==
    /\ tasks.at # << >>
    /\ tasks.at["refresh_library"].pos = "get_cover"
    /\ tasks.at["refresh_cover"].pos = "ready"
    /\ tasks.at["on_api_search_click"].pos = "ready"
    /\ tasks.at["save_api_key"].pos = "thread"

(***************************************************************************)
(* A change of the API keys: the manager is built anew between queries     *)
(***************************************************************************)
\* the keys a manager is built with here: one of the two
KeyChoices ==
    {k \in [sgdb_key : ApiKeys \cup {None}, rawg_key : ApiKeys \cup {None}] :
       Truthy(k.sgdb_key) # Truthy(k.rawg_key)}

\* a faulty rebuild: the new manager takes over the IconExtractor of the old
reinitialize_api_clients_KeepsExtractor(m, sgdb_key, rawg_key) ==
    [sgdb |-> NewSgdb(sgdb_key), rawg |-> NewRawg(rawg_key),
     search_cache |-> m.search_cache, files |-> m.files]

\* reinitialize_api_clients: CoverAPIManager(cache_icons, sgdb_key, rawg_key)
\* on the cache directory of the old manager; m is the old manager's state
\* and the files of the directory
reinitialize_api_clients(m, sgdb_key, rawg_key) ==
    [sgdb |-> NewSgdb(sgdb_key), rawg |-> NewRawg(rawg_key),
     search_cache |-> << >>, files |-> m.files]

\* a cover that is in the cache when the keys change
KeptCover == CachePath(<<"D", "m">>, None)

InitReinit ==
    /\ keys \in KeyChoices
    /\ norm = [t \in KeyTitles |-> _clean_name(t)]
    /\ sgdb = NewSgdb(keys.sgdb_key)
    /\ rawg = NewRawg(keys.rawg_key)
    /\ search_cache = << >>
    /\ files = [p \in AllPaths |-> IF p = KeptCover THEN 5000 ELSE NoFile]
    /\ now = StartTime
    /\ env = [HAS_DDG |-> TRUE, HAS_ICOEXTRACT |-> TRUE]
    /\ InitCall
    /\ InitHist
    /\ InitInventory

\* what the instances that are discarded held
Used ==
    /\ search_cache # << >>
    /\ sgdb.session_cache # << >> \/ rawg.session_cache # << >>
    /\ got401 # {}

\* save_api_key: self.game_manager.reinitialize_api_clients(sgdb, rawg); the
\* histories of the instances begin anew with them
ReinitializeApiClients ==
    /\ pc = "idle"
    /\ \E k \in KeyChoices :
         LET r == reinitialize_api_clients(
                      [sgdb |-> sgdb, rawg |-> rawg, search_cache |-> search_cache,
                       files |-> files], k.sgdb_key, k.rawg_key)
         IN /\ keys' = k
            /\ sgdb' = r.sgdb
            /\ rawg' = r.rawg
            /\ search_cache' = r.search_cache
            /\ files' = r.files
    /\ sent' = [sgdb |-> NoSent, rawg |-> NoSent]
    /\ got401' = {}
    /\ reply' = NoReply
    /\ queries' = NoQueries
    /\ vlog' = [op |-> "reinit", files |-> files, used |-> Used]
    /\ UNCHANGED <<now, env, norm, tasks, games, library, call, keyHist>>

\* one query of each client stands for the client: the limiter, the memo
\* and the disabling are the same code for all of them; time passes in the
\* sleeps of the limiters
NextReinit ==
    \/ QuerySearchGame
    \/ QueryRawg
    \/ SearchSteamIdByName(<<"D", "m">>)
    \/ ReinitializeApiClients

SpecReinit == InitReinit /\ [][NextReinit]_vars

\* the queries made on the instances that exist now
AskedOf(ops) == {q \in DOMAIN queries.seen : q[1] \in ops}

SgdbOps == {"search_game"}

C25_ReturnedCoverValid ==
    (pc = "done" /\ Truthy(result.path)) =>
        /\ validate_cache_file(files, result.path)
        /\ files[result.path] > MinValidSize

\* the files that a step changes
Changed == {p \in DOMAIN files : files'[p] # files[p]}

\* C26: a tier that fails leaves the cache as it was: inside get_cover the
\* files change only in the step that returns a cover, only at the cache
\* path of the request, and a download writes more than 2048 bytes; so when
\* get_cover returns (None, "None") the files are as before the call
C26_FailureWritesNothing ==
    [][(pc \notin {"idle", "done", "raised"} /\ Changed # {}) =>
          /\ pc' = "done"
          /\ result'.path = req.cache_path
          /\ Changed = {req.cache_path}
          /\ result'.tier # T_EXE => files'[req.cache_path] > MinValidSize]_vars

(***************************************************************************)
(* The entries of the inventory after a refresh                            *)
(***************************************************************************)
\* C27: when refresh_cover has completed, with a new cover or with every
\* tier failed, the icon_path of the entry is None or names an existing
\* valid file
C27_RefreshLeavesValid ==
    (pc = "idle" /\ vlog.op = "refresh") =>
        \A uid \in DOMAIN games :
            ~Truthy(games[uid].icon_path) \/ validate_cache_file(files, games[uid].icon_path)

(***************************************************************************)
(* Two entries of the inventory with one cache key                         *)
(***************************************************************************)
\* two folders whose names normalise to the same name: DiskScanner builds
\* one entry for each, get_cover derives one cache path for both
SharedNames == << <<"D", "m">>, <<"D", "m", " ", "[", "x", "]">> >>

SharedExe(i) == <<IF i = 1 THEN "a/" ELSE "b/", "g", ".", "e", "x", "e">>

SharedPath == CachePath(_clean_name(SharedNames[1]), None)

SharedGames ==
    [u \in {generate_uid(SharedExe(i)) : i \in 1..2} |->
       LET i == CHOOSE j \in 1..2 : generate_uid(SharedExe(j)) = u
       IN [uid |-> u, title |-> SharedNames[i], exe_path |-> SharedExe(i),
           icon_path |-> SharedPath, app_id |-> None, is_favorite |-> FALSE]]

\* the library is loaded: both entries have the cover that get_cover stored
\* for the first of them
InitShared ==
    /\ keys \in KeyChoices \cup {[sgdb_key |-> None, rawg_key |-> None]}
    /\ norm = [t \in KeyTitles |-> _clean_name(t)]
    /\ sgdb = NewSgdb(keys.sgdb_key)
    /\ rawg = NewRawg(keys.rawg_key)
    /\ search_cache = << >>
    /\ files = [p \in AllPaths |-> IF p = SharedPath THEN 5000 ELSE NoFile]
    /\ now = StartTime
    /\ env = [HAS_DDG |-> TRUE, HAS_ICOEXTRACT |-> TRUE]
    /\ InitCall
    /\ InitHist
    /\ games = SharedGames
    /\ library = save_library(SharedGames)
    /\ vlog = NoVlog

\* refresh_cover of one of the entries; the history keeps which, and the
\* entries whose cover was valid before
RefreshShared ==
    \E uid \in DOMAIN games :
        RefreshCoverOf(uid, [op |-> "refresh", uid |-> uid,
                             valid |-> {v \in DOMAIN games :
                                          validate_cache_file(files, games[v].icon_path)}])

NextShared ==
    \/ RefreshShared
    \/ ReturnToRefresh
    \/ SgdbById
    \/ SteamCdn
    \/ Rawg
    \/ RawgDownload
    \/ StoreSearch
    \/ StoreSearchDownload
    \/ SgdbSearch
    \/ SgdbByGameId
    \/ SgdbByNameDownload
    \/ DuckDuckGo
    \/ ExeIcon

SpecShared == InitShared /\ [][NextShared]_vars

\* C28: a refresh of one entry leaves the cover of every other entry valid,
\* also of an entry with the same cache key
C28_OthersKeepCover ==
    (pc = "idle" /\ vlog.op = "refresh") =>
        \A v \in vlog.valid \ {vlog.uid} : validate_cache_file(files, games[v].icon_path)

(***************************************************************************)
(* The cover a user uploaded                                               *)
(***************************************************************************)
\* the entries of the saved inventory whose cover is the file that
\* upload_from_file wrote for them
Uploaded ==
    {u \in DOMAIN library.games :
       /\ library.games[u].icon_path = UploadPath(u)
       /\ files[UploadPath(u)] # NoFile}

\* C29: a cover that was uploaded and saved is kept by every later
\* load_library and scan_all_games, the entry's icon_path and the file,
\* however small the JPEG is
C29_UploadDurable ==
    [][vlog'.op \in {"load", "scan"} =>
          \A u \in Uploaded :
              /\ u \in DOMAIN games'
              /\ games'[u].icon_path = UploadPath(u)
              /\ files'[UploadPath(u)] = files[UploadPath(u)]]_vars

(***************************************************************************)
(* The scanners' pre-check and the cache path of get_cover                 *)
(***************************************************************************)
\* C30: the path whose validity a scanner tests before it calls get_cover
\* is the path get_cover derives for the same game: for every Steam app id
\* and for every folder name
C30_PreCheckPath ==
    cur # NoKey =>
        IF Truthy(cur.app_id)
        THEN SteamScanPath(cur.app_id) = cur.path
        ELSE DiskScanPath(CleanName(cur.title)) = cur.path
====
